---- MODULE Spec2Model ----
(***************************************************************************)
(* Model of the bioclick backend: the click ledger (Link, ClickEvent),     *)
(* the analytics aggregator and the weekly analytics email job             *)
(* (EmailScheduler.send_weekly_analytics_emails) with its two triggers,    *)
(* the APScheduler cron job and POST /admin/send-weekly-analytics.         *)
(*                                                                         *)
(* Time: `now` is the reading of datetime.now(timezone.utc), counted in    *)
(* clock ticks.  Week is the length of timedelta(days=7) in ticks, scaled  *)
(* down so that a window can both contain and lose an event.               *)
(* An optional column (NULL or a value) is a set: {} or {v}.               *)
(* A run of the weekly job keeps, next to the locals of the function, what *)
(* it printed and did: outcomes (per user: "duplicate", "no_activity",     *)
(* "sent", "send_failed", "error"), reports (the failure lines printed),   *)
(* ledgerFailed and after (the runs that had finished when it began).      *)
(***************************************************************************)
EXTENDS Integers, Sequences, FiniteSets, TLC

\* ---------------------------------------------------------------- bounds
Week == 2
MaxTime == 1
MaxRuns == 2
MaxClicks == 3
MaxCount == 1
MaxFaults == 1
TicksPerDay == 2
MaxTracked == 2
MaxStarts == 2

\* link_performance[:5], country_stats[:10]
TopLinksLimit == 5
TopCountriesLimit == 10

Users == {1, 2}
LinkIds == {1, 2}
Runners == {"cron", "admin"}
ANALYTICS_SUMMARY == "analytics_summary"

VARIABLES
    now,          \* the clock
    isActive,     \* User.is_active, per user
    links,        \* the Link table: id -> row
    clickEvents,  \* the ClickEvent table: a set of rows
    emailLog,     \* the EmailLog table: a sequence of rows, id = index
    outbox,       \* emails the transport accepted: <<[to, run]>>
    flag,         \* settings.send_analytics_emails
    runs,         \* the executions of the weekly job, in order of start
    current,      \* per trigger: the run it is executing, 0 when idle
    faults,       \* the failures of the store and of the transport so far
    req,          \* the GET /links/{id}/redirect request in flight
    lastAnalytics,\* the last AnalyticsResponse served by GET /analytics
    lastGeo,      \* the last GeographicResponse of GET /analytics/geographic
    lastTrack,    \* the last call of track_click: its arguments, its outcome
    jobRead,      \* get_analytics as the scheduler thread executes it
    lastStats,    \* the last response of GET /admin/email-stats
    post,         \* a POST /links/{id}/click request in flight
    sched         \* tasks/scheduler.py: the handle, the schedulers, atexit

vars == <<now, isActive, links, clickEvents, emailLog, outbox, flag, runs,
          current, faults, req, lastAnalytics, lastGeo, lastTrack, jobRead,
          lastStats, post, sched>>

ledgerVars == <<links, clickEvents, req, lastAnalytics>>
jobVars == <<emailLog, outbox, runs, current, faults>>
aggVars == <<lastGeo, lastTrack, jobRead>>
opsVars == <<lastStats, post, sched>>

\* ------------------------------------------------------------- helpers
\* the elements of a set of integers in ascending order
RECURSIVE SetToSeq(_)
SetToSeq(S) ==
    IF S = {} THEN <<>>
    ELSE LET m == CHOOSE x \in S : \A y \in S : x <= y
         IN <<m>> \o SetToSeq(S \ {m})

\* the variables of the aggregator while nothing has been asked
NoGeo == [user_id |-> 0]
NoTrack == [calls |-> 0, link_id |-> 0]
NoRead == [pc |-> "idle"]

\* GET /admin/email-stats before the first request (success_rate is kept
\* as the fraction num / den)
NoStats ==
    [days |-> 0, total_sent |-> 0, total_failed |-> 0,
     success_rate |-> [num |-> 0, den |-> 1], last_sent |-> {}]

\* no POST /links/{id}/click in flight
NoPost == [pc |-> "idle", link_id |-> 0, click_count |-> 0]

\* tasks/scheduler.py as imported: `scheduler = None`, no scheduler was
\* created, no exit handler is registered, the process runs
NoSched == [scheduler |-> 0, state |-> <<>>, handlers |-> 0, exits |-> <<>>,
            exiting |-> FALSE, last |-> ""]

\* the ledger the aggregator specifications start from, a row per click:
\* <<link_id, clicked_at, ip_address, country, device_type>>.
\* Links 1..6 belong to user 1, link 7 to user 2, user 3 has no link.
ClickTable ==
    << <<1, 0 - 1, {"1.1.1.1"}, {"US"}, "mobile">>,
       <<1, 0 - 1, {"1.1.1.1"}, {"US"}, "mobile">>,
       <<1, 0 - 1, {"2.2.2.2"}, {}, "mobile">>,
       <<1, 0, {}, {}, "unknown">>,
       <<1, 0, {"2.2.2.2"}, {}, "mobile">>,
       <<1, 0 - 3, {"1.1.1.1"}, {"US"}, "mobile">>,
       <<2, 0 - 1, {"2.2.2.2"}, {}, "desktop">>,
       <<2, 0 - 1, {"2.2.2.2"}, {}, "desktop">>,
       <<2, 0 - 1, {}, {}, "desktop">>,
       <<2, 0 - 2, {"1.1.1.1"}, {"US"}, "desktop">>,
       <<3, 0 - 1, {"1.1.1.1"}, {"US"}, "tablet">>,
       <<3, 0 - 1, {"1.1.1.1"}, {"US"}, "tablet">>,
       <<3, 0 - 2, {"1.1.1.1"}, {"US"}, "tablet">>,
       <<4, 0 - 1, {}, {}, "unknown">>,
       <<4, 0 - 2, {}, {}, "unknown">>,
       <<5, 0 - 1, {"2.2.2.2"}, {}, "mobile">>,
       <<6, 0 - 2, {"2.2.2.2"}, {}, "desktop">>,
       <<7, 0 - 5, {"1.1.1.1"}, {"US"}, "mobile">>,
       <<7, 0 - 5, {"2.2.2.2"}, {}, "mobile">>,
       <<7, 0 - 6, {"1.1.1.1"}, {"US"}, "desktop">> >>

NoLink == [exists |-> FALSE, user_id |-> 0, is_active |-> FALSE, click_count |-> 0]

\* (mutant) the links of every user
AnyLinkIds(user_id) == {l \in DOMAIN links : links[l].exists}

\* select(Link).where(Link.user_id == user_id) -> link ids
UserLinkIds(user_id) ==
    {l \in DOMAIN links : links[l].exists /\ links[l].user_id = user_id}

\* (mutant) the count without the filter on the links of the user
CountClicksAnyLink(link_ids, start_date) ==
    Cardinality({e \in clickEvents : e.clicked_at >= start_date})

\* select(func.count(ClickEvent.id)).where(link_id.in_(link_ids),
\*                                         clicked_at >= start_date)
CountClicksSince(link_ids, start_date) ==
    Cardinality({e \in clickEvents :
                    e.link_id \in link_ids /\ e.clicked_at >= start_date})

\* AnalyticsService.get_analytics(user_id, days).total_clicks, computed at
\* clock reading t
TotalClicks(user_id, days, t) ==
    LET end_date == t
        start_date == end_date - days
        link_ids == UserLinkIds(user_id)
    IN IF link_ids = {} THEN 0
       ELSE CountClicksSince(link_ids, start_date)

\* ------------------------------------------------------------ the clock
Tick ==
    /\ now < MaxTime
    /\ now' = now + 1
    /\ UNCHANGED <<isActive, flag, ledgerVars, jobVars, aggVars, opsVars>>

\* ------------------------------------------------------ the link table
\* the id the autoincrement primary key gives the next Link
NextLinkId == CHOOSE l \in LinkIds :
                /\ links[l].user_id = 0
                /\ \A k \in LinkIds : k < l => links[k].user_id # 0

\* LinkService.create_link
CreateLink(u) ==
    /\ isActive[u]
    /\ \E l \in LinkIds : links[l].user_id = 0
    /\ links' = [links EXCEPT ![NextLinkId] =
                    [exists |-> TRUE, user_id |-> u, is_active |-> TRUE,
                     click_count |-> 0]]
    /\ UNCHANGED <<now, isActive, flag, clickEvents, req, lastAnalytics, jobVars, aggVars, opsVars>>

\* PATCH /users/me with is_active in the body: UserService.update_user.
\* The route depends on get_current_active_user: only an active user gets
\* through, so the request that changes the value deactivates.
UpdateUser(u, active) ==
    /\ isActive[u]
    /\ active # isActive[u]
    /\ isActive' = [isActive EXCEPT ![u] = active]
    /\ UNCHANGED <<now, flag, ledgerVars, jobVars, aggVars, opsVars>>

\* PATCH /links/{id} by the owner: LinkService.update_link
UpdateLink(l, active) ==
    /\ links[l].exists
    /\ isActive[links[l].user_id]
    /\ links[l].is_active # active
    /\ links' = [links EXCEPT ![l].is_active = active]
    /\ UNCHANGED <<now, isActive, flag, clickEvents, req, lastAnalytics, jobVars, aggVars, opsVars>>

\* DELETE /links/{id} by the owner: LinkService.delete_link.  The foreign
\* key clickevent.link_id -> link.id has no ON DELETE rule: the commit of a
\* delete of a link that has click events raises and changes nothing.
DeleteLink(l) ==
    /\ links[l].exists
    /\ isActive[links[l].user_id]
    /\ \A e \in clickEvents : e.link_id # l
    /\ links' = [links EXCEPT ![l].exists = FALSE]
    /\ UNCHANGED <<now, isActive, flag, clickEvents, req, lastAnalytics, jobVars, aggVars, opsVars>>

\* LinkService.increment_click_count: the Link table after the call;
\* unchanged when the call raises 404 (link missing or not active)
IncrementClickCount(l) ==
    IF links[l].exists /\ links[l].is_active
    THEN [links EXCEPT ![l].click_count = @ + 1]
    ELSE links

\* POST /links/{id}/click
PostClick(l) ==
    /\ links[l].exists /\ links[l].is_active
    /\ links[l].click_count < MaxCount
    /\ links' = IncrementClickCount(l)
    /\ UNCHANGED <<now, isActive, flag, clickEvents, req, lastAnalytics, jobVars, aggVars, opsVars>>

\* POST /links/{id}/click served while other requests are: the statements
\* of LinkService.increment_click_count one by one.  First get_link, the
\* is_active check and `link.click_count += 1` on the object in memory ...
PostClickGet(l) ==
    /\ post.pc = "idle"
    /\ links[l].exists /\ links[l].is_active
    /\ links[l].click_count < MaxCount
    /\ post' = [pc |-> "commit", link_id |-> l,
                click_count |-> links[l].click_count + 1]
    /\ UNCHANGED <<now, isActive, flag, ledgerVars, jobVars, aggVars, lastStats, sched>>

\* ... then session.commit(): the UPDATE of the row sets click_count to
\* the value computed in memory; it matches no row, and raises, when the
\* link was deleted meanwhile
PostClickCommit ==
    /\ post.pc = "commit"
    /\ links' = IF links[post.link_id].exists
                THEN [links EXCEPT ![post.link_id].click_count = post.click_count]
                ELSE links
    /\ post' = NoPost
    /\ UNCHANGED <<now, isActive, flag, clickEvents, req, lastAnalytics, jobVars, aggVars, lastStats, sched>>

\* ------------------------------------------------ track_click: enrichment
\* The arguments of a call of track_click are a record
\*   [ip_address, user_agent, lookup]
\* ip_address: {} for None, or {the string};
\* user_agent: {} for None, or {[string, is_mobile, is_tablet, is_pc,
\*             family]}: the header with what user_agents.parse answers for
\*             it (an external library: the flags come in any combination);
\* lookup:     what the GeoIP2 reader does when it is asked for this
\*             address: [raises, iso_code], raises = "" when it answers.

\* a ClickEvent row; user_agent and referer, stored as given and read by no
\* query, are left out
Row(id, link_id, clicked_at, ip_address, country, device_type, browser) ==
    [id |-> id, link_id |-> link_id, clicked_at |-> clicked_at,
     ip_address |-> ip_address, country |-> country,
     device_type |-> device_type, browser |-> browser]

\* `if ip_address`: neither None nor the empty string
HasIp(ip_address) == \E x \in ip_address : x # ""

\* `if user_agent:`: neither None nor the empty string
HasUserAgent(user_agent) == \E x \in user_agent : x.string # ""

\* (mutant) the device type with the tablet test before the mobile test
DeviceTypeTabletFirst(user_agent) ==
    IF ~HasUserAgent(user_agent) THEN "unknown"
    ELSE LET ua == CHOOSE x \in user_agent : TRUE
         IN IF ua.is_tablet THEN "tablet"
            ELSE IF ua.is_mobile THEN "mobile"
            ELSE IF ua.is_pc THEN "desktop"
            ELSE "unknown"

\* track_click: device_type
DeviceType(user_agent) ==
    IF ~HasUserAgent(user_agent) THEN "unknown"
    ELSE LET ua == CHOOSE x \in user_agent : TRUE
         IN IF ua.is_mobile THEN "mobile"
            ELSE IF ua.is_tablet THEN "tablet"
            ELSE IF ua.is_pc THEN "desktop"
            ELSE "unknown"

\* track_click: browser
Browser(user_agent) ==
    IF ~HasUserAgent(user_agent) THEN "unknown"
    ELSE LET ua == CHOOSE x \in user_agent : TRUE
         IN IF ua.family # "" THEN ua.family ELSE "unknown"

\* the exceptions _get_country_from_ip catches
CaughtErrors == {"AddressNotFoundError", "FileNotFoundError", "OSError"}

\* _get_country_from_ip: [raised, country]
GetCountryFromIp(lookup) ==
    IF lookup.raises = "" THEN [raised |-> FALSE, country |-> lookup.iso_code]
    ELSE IF lookup.raises \in CaughtErrors THEN [raised |-> FALSE, country |-> {}]
    ELSE [raised |-> TRUE, country |-> {}]

\* track_click: `self._get_country_from_ip(ip_address) if ip_address else None`
Country(rq) ==
    IF HasIp(rq.ip_address)
    THEN GetCountryFromIp(rq.lookup)
    ELSE [raised |-> FALSE, country |-> {}]

\* the call of track_click raises before a row is added
TrackClickRaises(rq) == Country(rq).raised

\* the row track_click builds
ClickRow(link_id, rq) ==
    Row(Cardinality(clickEvents) + 1, link_id, now, rq.ip_address,
        Country(rq).country, {DeviceType(rq.user_agent)},
        {Browser(rq.user_agent)})

\* (mutant) track_click as an upsert: one row per link, the old one replaced
TrackClickUpsert(link_id, rq) ==
    IF TrackClickRaises(rq) THEN clickEvents
    ELSE {e \in clickEvents : e.link_id # link_id} \cup {ClickRow(link_id, rq)}

\* AnalyticsService.track_click: the ClickEvent table after the call
TrackClick(link_id, rq) ==
    IF TrackClickRaises(rq) THEN clickEvents
    ELSE clickEvents \cup {ClickRow(link_id, rq)}

\* the rows of the click table at the start of the aggregator specifications
AggregateClicks ==
    {Row(i, ClickTable[i][1], ClickTable[i][2], ClickTable[i][3],
         ClickTable[i][4], {ClickTable[i][5]}, {"Chrome"}) :
     i \in DOMAIN ClickTable}

\* a call of AnalyticsService.track_click(link_id, ip_address, user_agent):
\* it adds the row, or raises and adds nothing
TrackClickCall(link_id, rq) ==
    /\ links[link_id].exists
    /\ lastTrack.calls < MaxTracked
    /\ clickEvents' = TrackClick(link_id, rq)
    /\ lastTrack' = [calls |-> lastTrack.calls + 1, link_id |-> link_id, rq |-> rq,
                      raised |-> TrackClickRaises(rq),
                      id |-> Cardinality(clickEvents) + 1]
    /\ UNCHANGED <<now, isActive, flag, links, req, lastAnalytics, lastGeo,
                   jobRead, jobVars, opsVars>>

\* GET /links/{id}/redirect, routers/links.py click_and_redirect:
\* get_link and the is_active check
RedirectBegin(l) ==
    /\ req.pc = "idle"
    /\ links[l].exists /\ links[l].is_active
    /\ Cardinality(clickEvents) < MaxClicks
    /\ req' = [pc |-> "track", link_id |-> l]
    /\ UNCHANGED <<now, isActive, flag, links, clickEvents, lastAnalytics, jobVars, aggVars, opsVars>>

\* ... analytics_service.track_click(link_id, ...)
RedirectTrack(rq) ==
    /\ req.pc = "track"
    /\ links[req.link_id].exists
    /\ ~TrackClickRaises(rq)
    /\ clickEvents' = TrackClick(req.link_id, rq)
    /\ req' = [req EXCEPT !.pc = "increment"]
    /\ UNCHANGED <<now, isActive, flag, links, lastAnalytics, jobVars, aggVars, opsVars>>

\* ... track_click raises and the request fails: the lookup of the country
\* raised, or the link was deleted since get_link and the foreign key
\* rejects the insert at the commit
RedirectTrackRaises(rq) ==
    /\ req.pc = "track"
    /\ ~links[req.link_id].exists \/ TrackClickRaises(rq)
    /\ req' = [pc |-> "idle", link_id |-> 0]
    /\ UNCHANGED <<now, isActive, flag, links, clickEvents, lastAnalytics, jobVars, aggVars, opsVars>>

\* ... link_service.increment_click_count(link_id), then the 302 response
RedirectIncrement ==
    /\ req.pc = "increment"
    /\ links' = IncrementClickCount(req.link_id)
    /\ req' = [pc |-> "idle", link_id |-> 0]
    /\ UNCHANGED <<now, isActive, flag, clickEvents, lastAnalytics, jobVars, aggVars, opsVars>>

\* ------------------------------------------------------ the aggregator
\* Percentages and the growth are kept in tenths: 1000 is 100.0.

\* func.date(clicked_at): the calendar date of a clock reading
Date(t) == t \div TicksPerDay

\* round(n / d, 1) in tenths for d > 0: the built-in round, ties to even
RoundHalfEven(n, d) ==
    LET q == n \div d
        r == n - q * d
    IN IF 2 * r < d THEN q
       ELSE IF 2 * r > d THEN q + 1
       ELSE IF q % 2 = 0 THEN q ELSE q + 1

\* round(count / total * 100, 1), in tenths
Percentage(count, total) == RoundHalfEven(1000 * count, total)

\* sum(key[x] for x in S)
RECURSIVE Sum(_, _)
Sum(key, S) ==
    IF S = {} THEN 0
    ELSE LET x == CHOOSE y \in S : TRUE IN key[x] + Sum(key, S \ {x})

\* the orders a list of the elements of S can have after it is sorted by
\* key, largest first: rows a query returns without ORDER BY on another
\* column come in any order and list.sort is stable, so elements with the
\* same key stand in any order
RECURSIVE SortedDesc(_, _)
SortedDesc(S, key) ==
    IF S = {} THEN {<<>>}
    ELSE LET top == {m \in S : \A y \in S : key[y] <= key[m]}
         IN UNION {{<<m>> \o rest : rest \in SortedDesc(S \ {m}, key)} : m \in top}

\* (mutant) the slice that keeps every element
TakeAll(seq, n) == seq

\* seq[:n]
Take(seq, n) == SubSeq(seq, 1, IF Len(seq) < n THEN Len(seq) ELSE n)

\* the rows `link_id.in_(link_ids), clicked_at >= start_date` selects
Since(link_ids, start_date) ==
    {e \in clickEvents : e.link_id \in link_ids /\ e.clicked_at >= start_date}

\* (mutant) the distinct count without the filter on the links
UniqueVisitorsAnyLink(link_ids, start_date) ==
    Cardinality(UNION {e.ip_address : e \in Since(DOMAIN links, start_date)})

\* count(distinct(ip_address)) where ... ip_address.is_not(None)
UniqueVisitors(link_ids, start_date) ==
    Cardinality(UNION {e.ip_address : e \in Since(link_ids, start_date)})

\* (mutant) the daily series without the upper bound of the window and
\* with a row for the date before the first one
DailyStatsPadded(link_ids, start_date, end_date) ==
    LET rows == Since(link_ids, start_date)
        found == {Date(e.clicked_at) : e \in rows}
        dates == SetToSeq(found \cup {Date(start_date) - 1})
    IN [i \in DOMAIN dates |->
          [date |-> dates[i],
           clicks |-> Cardinality({e \in rows : Date(e.clicked_at) = dates[i]})]]

\* _get_daily_stats: one row per date, in the order of the dates
DailyStats(link_ids, start_date, end_date) ==
    LET rows == {e \in Since(link_ids, start_date) : e.clicked_at <= end_date}
        dates == SetToSeq({Date(e.clicked_at) : e \in rows})
    IN [i \in DOMAIN dates |->
          [date |-> dates[i],
           clicks |-> Cardinality({e \in rows : Date(e.clicked_at) = dates[i]})]]

\* _get_top_links: the clicks counted for one link
LinkClicks(link_id, start_date) ==
    Cardinality({e \in clickEvents :
                    e.link_id = link_id /\ e.clicked_at >= start_date})

\* _get_top_links: the LinkStats of a link
LinkStats(link_id, clicks, total_clicks) ==
    [link_id |-> link_id, clicks |-> clicks,
     percentage |-> IF total_clicks > 0 THEN Percentage(clicks, total_clicks)
                    ELSE 0]

\* _get_top_links: the lists the function can return
TopLinks(link_ids, start_date) ==
    LET clicks == [l \in link_ids |-> LinkClicks(l, start_date)]
        total_clicks == Sum(clicks, link_ids)
    IN {[i \in DOMAIN Take(link_performance, TopLinksLimit) |->
            LinkStats(link_performance[i], clicks[link_performance[i]],
                      total_clicks)] :
        link_performance \in SortedDesc(link_ids, clicks)}

\* (mutant) the device breakdown with an entry for each of the four types
DeviceStatsZeroFilled(link_ids, start_date) ==
    LET rows == {e \in Since(link_ids, start_date) : e.device_type # {}}
        count == [d \in {"mobile", "tablet", "desktop", "unknown"} |->
                    Cardinality({e \in rows : e.device_type = {d}})]
        total == Sum(count, DOMAIN count)
    IN {[device_type |-> d, count |-> count[d],
         percentage |-> IF total = 0 THEN 0 ELSE Percentage(count[d], total)] :
        d \in DOMAIN count}

\* _get_device_stats.  The rows of the GROUP BY come in no stated order:
\* the list is kept as the set of its entries.
DeviceStats(link_ids, start_date) ==
    LET rows == {e \in Since(link_ids, start_date) : e.device_type # {}}
        count == [d \in UNION {e.device_type : e \in rows} |->
                    Cardinality({e \in rows : e.device_type = {d}})]
        total == Sum(count, DOMAIN count)
    IN IF total = 0 THEN {}
       ELSE {[device_type |-> d, count |-> count[d],
              percentage |-> Percentage(count[d], total)] : d \in DOMAIN count}

\* (mutant) the growth relative to the current count
GrowthOverCurrent(previous_clicks, current_clicks) ==
    IF current_clicks = 0 THEN 0
    ELSE RoundHalfEven((current_clicks - previous_clicks) * 1000, current_clicks)

\* _calculate_growth: the value returned for the two counts, in tenths
Growth(previous_clicks, current_clicks) ==
    IF previous_clicks = 0
    THEN (IF current_clicks > 0 THEN 1000 ELSE 0)
    ELSE RoundHalfEven((current_clicks - previous_clicks) * 1000,
                       previous_clicks)

\* _calculate_growth: the two counts
CalculateGrowth(link_ids, start_date, days) ==
    LET previous_end == start_date
        previous_start == previous_end - days
        current_clicks == CountClicksSince(link_ids, start_date)
        previous_clicks ==
            Cardinality({e \in clickEvents :
                            /\ e.link_id \in link_ids
                            /\ e.clicked_at >= previous_start
                            /\ e.clicked_at < previous_end})
    IN Growth(previous_clicks, current_clicks)

\* AnalyticsService.get_analytics(user_id, days) with end_date read from
\* the clock at t: the responses it can return (user_id and days are kept
\* with the response)
AnalyticsResponses(user_id, days, t) ==
    LET end_date == t
        start_date == end_date - days
        link_ids == UserLinkIds(user_id)
    IN IF link_ids = {}
       THEN {[user_id |-> user_id, days |-> days,
              total_clicks |-> 0, unique_visitors |-> 0,
              daily_stats |-> <<>>, top_links |-> <<>>,
              device_stats |-> {}, growth_percentage |-> 0]}
       ELSE {[user_id |-> user_id, days |-> days,
              total_clicks |-> TotalClicks(user_id, days, t),
              unique_visitors |-> UniqueVisitors(link_ids, start_date),
              daily_stats |-> DailyStats(link_ids, start_date, end_date),
              top_links |-> top_links,
              device_stats |-> DeviceStats(link_ids, start_date),
              growth_percentage |->
                  CalculateGrowth(link_ids, start_date, days)] :
             top_links \in TopLinks(link_ids, start_date)}

\* the variable lastAnalytics before the first request
NoAnalytics ==
    [user_id |-> 0, days |-> 0,
     total_clicks |-> 0, unique_visitors |-> 0, daily_stats |-> <<>>,
     top_links |-> <<>>, device_stats |-> {}, growth_percentage |-> 0]

\* GET /analytics/?days=: AnalyticsService.get_analytics for the current
\* user.  The handler is a coroutine without an await: it runs from the
\* first line to the response before another request is served.
GetAnalytics(u, days) ==
    /\ isActive[u]
    /\ lastAnalytics' \in AnalyticsResponses(u, days, now)
    /\ UNCHANGED <<now, isActive, flag, links, clickEvents, req, jobVars, aggVars, opsVars>>

\* GET /analytics/?days= when the query that counts the clicks of link
\* link_id raises in the loop of _get_top_links: neither _get_top_links nor
\* get_analytics nor the route has a handler, the exception leaves them
\* all and the request is answered without an AnalyticsResponse
GetAnalyticsRaises(u, days, link_id) ==
    /\ isActive[u]
    /\ link_id \in UserLinkIds(u)
    /\ faults < MaxFaults
    /\ faults' = faults + 1
    /\ lastAnalytics' = [user_id |-> u, days |-> days, raised |-> TRUE,
                         link_id |-> link_id]
    /\ UNCHANGED <<now, isActive, flag, links, clickEvents, req, emailLog,
                   outbox, runs, current, aggVars, opsVars>>

\* ------------------------------------------- the geographic aggregator
\* _get_country_names: the static table of the names
CountryNames ==
    "US" :> "United States" @@ "GB" :> "United Kingdom" @@
    "CA" :> "Canada" @@ "AU" :> "Australia" @@ "DE" :> "Germany" @@
    "FR" :> "France" @@ "IT" :> "Italy" @@ "ES" :> "Spain" @@
    "NL" :> "Netherlands" @@ "BR" :> "Brazil" @@ "JP" :> "Japan" @@
    "CN" :> "China" @@ "IN" :> "India" @@ "MX" :> "Mexico" @@
    "AR" :> "Argentina" @@ "CL" :> "Chile" @@ "CO" :> "Colombia" @@
    "PE" :> "Peru" @@ "RU" :> "Russia" @@ "UA" :> "Ukraine" @@
    "PL" :> "Poland" @@ "SE" :> "Sweden" @@ "NO" :> "Norway" @@
    "DK" :> "Denmark" @@ "FI" :> "Finland" @@ "CH" :> "Switzerland" @@
    "AT" :> "Austria" @@ "BE" :> "Belgium" @@ "PT" :> "Portugal" @@
    "IE" :> "Ireland" @@ "NZ" :> "New Zealand" @@ "ZA" :> "South Africa" @@
    "EG" :> "Egypt" @@ "NG" :> "Nigeria" @@ "KE" :> "Kenya" @@
    "MA" :> "Morocco" @@ "TH" :> "Thailand" @@ "VN" :> "Vietnam" @@
    "SG" :> "Singapore" @@ "MY" :> "Malaysia" @@ "ID" :> "Indonesia" @@
    "PH" :> "Philippines" @@ "KR" :> "South Korea" @@ "TR" :> "Turkey" @@
    "SA" :> "Saudi Arabia" @@ "AE" :> "UAE" @@ "IL" :> "Israel" @@
    "QA" :> "Qatar"

\* country_names.get(row.country, row.country)
CountryName(country) ==
    IF country \in DOMAIN CountryNames THEN CountryNames[country] ELSE country

\* (mutant) the country statistics with the percentage taken over the
\* countries that are returned
CountryStatsOverReturned(link_ids, start_date) ==
    LET rows == {e \in Since(link_ids, start_date) : e.country # {}}
        clicks == [c \in UNION {e.country : e \in rows} |->
                     Cardinality({e \in rows : e.country = {c}})]
    IN {LET top == Take(results, TopCountriesLimit)
            total_clicks == Sum(clicks, {top[i] : i \in DOMAIN top})
        IN [i \in DOMAIN top |->
              [country_code |-> top[i],
               country_name |-> CountryName(top[i]),
               clicks |-> clicks[top[i]],
               percentage |-> IF total_clicks > 0
                              THEN Percentage(clicks[top[i]], total_clicks)
                              ELSE 0,
               unique_visitors |->
                  Cardinality(UNION {e.ip_address :
                                     e \in {x \in rows : x.country = {top[i]}}})]] :
        results \in SortedDesc(DOMAIN clicks, clicks)}

\* _get_country_stats: the lists the function can return (countries with
\* the same number of clicks come in any order)
CountryStats(link_ids, start_date) ==
    LET rows == {e \in Since(link_ids, start_date) : e.country # {}}
        clicks == [c \in UNION {e.country : e \in rows} |->
                     Cardinality({e \in rows : e.country = {c}})]
        total_clicks == Sum(clicks, DOMAIN clicks)
    IN {Take([i \in DOMAIN results |->
                [country_code |-> results[i],
                 country_name |-> CountryName(results[i]),
                 clicks |-> clicks[results[i]],
                 percentage |-> IF total_clicks > 0
                                THEN Percentage(clicks[results[i]], total_clicks)
                                ELSE 0,
                 unique_visitors |->
                    Cardinality(UNION {e.ip_address :
                                       e \in {x \in rows : x.country = {results[i]}}})]],
             TopCountriesLimit) :
        results \in SortedDesc(DOMAIN clicks, clicks)}

\* _get_city_stats
CityStats(link_ids, start_date) == <<>>

\* _get_geographic_trends: the daily series of the clicks with a country
GeographicTrends(link_ids, start_date, end_date) ==
    LET rows == {e \in Since(link_ids, start_date) :
                    e.clicked_at <= end_date /\ e.country # {}}
        dates == SetToSeq({Date(e.clicked_at) : e \in rows})
    IN [i \in DOMAIN dates |->
          [date |-> dates[i],
           clicks |-> Cardinality({e \in rows : Date(e.clicked_at) = dates[i]})]]

\* AnalyticsService.get_geographic_analytics(user_id, days) with end_date
\* read from the clock at t: the responses it can return
GeographicResponses(user_id, days, t) ==
    LET end_date == t
        start_date == end_date - days
        link_ids == UserLinkIds(user_id)
    IN IF link_ids = {}
       THEN {[user_id |-> user_id, days |-> days,
              total_countries |-> 0, top_countries |-> <<>>,
              city_breakdown |-> <<>>, geographic_trends |-> <<>>]}
       ELSE {[user_id |-> user_id, days |-> days,
              total_countries |-> Len(top_countries),
              top_countries |-> top_countries,
              city_breakdown |-> CityStats(link_ids, start_date),
              geographic_trends |->
                  GeographicTrends(link_ids, start_date, end_date)] :
             top_countries \in CountryStats(link_ids, start_date)}

\* GET /analytics/geographic?days=
GetGeographicAnalytics(u, days) ==
    /\ isActive[u]
    /\ lastGeo' \in GeographicResponses(u, days, now)
    /\ UNCHANGED <<now, isActive, flag, ledgerVars, jobVars, lastTrack, jobRead, opsVars>>

\* get_analytics(user.id, days=7) as the weekly job calls it.  The job runs
\* in a thread of the BackgroundScheduler while the event loop serves
\* requests: the function reads the clock (end_date, start_date) ...
JobReadBegin(u) ==
    /\ jobRead.pc \in {"idle", "done"}
    /\ isActive[u]
    /\ jobRead' = [pc |-> "query", user_id |-> u, days |-> 7 * TicksPerDay,
                   end_date |-> now]
    /\ UNCHANGED <<now, isActive, flag, ledgerVars, jobVars, lastGeo, lastTrack, opsVars>>

\* ... and then runs its queries, on the table as it is by then
JobReadQuery ==
    /\ jobRead.pc = "query"
    /\ \E response \in AnalyticsResponses(jobRead.user_id, jobRead.days,
                                          jobRead.end_date) :
          jobRead' = [pc |-> "done", response |-> response]
    /\ UNCHANGED <<now, isActive, flag, ledgerVars, jobVars, lastGeo, lastTrack, opsVars>>

\* ------------------------------------------------------ the weekly job
Finished(run) == run.pc \in {"returned", "raised"}

\* the run trigger r is executing
Me(r) == runs[current[r]]

\* the user of the current iteration of the loop `for user in users`
User(run) == run.users[run.idx]

\* (mutant) the loop without its step to the next user
RepeatUser(run, outcome) ==
    [run EXCEPT !.pc = "loop",
                !.outcomes = Append(@, [user |-> User(run), outcome |-> outcome])]

\* the next iteration of the loop, with the outcome of this one recorded
NextUser(run, outcome) ==
    [run EXCEPT !.idx = @ + 1, !.pc = "loop",
                !.outcomes = Append(@, [user |-> User(run), outcome |-> outcome])]

\* (mutant) no handler around the loop body: the exception leaves the run
ExceptRaise(run) ==
    [run EXCEPT !.pc = "raised", !.reports = @ + 1]

\* the handler `except Exception as e:` of the loop body: print the
\* failure, error_count += 1, go on with the next user
Except(run) ==
    [NextUser(run, "error") EXCEPT !.error_count = @ + 1, !.reports = @ + 1]

\* a firing of the trigger: the cron trigger of the BackgroundScheduler
\* (add_job with the default max_instances = 1: no second instance of the
\* job while one runs) or POST /admin/send-weekly-analytics (an async
\* handler: the event loop runs one such call at a time).  The function
\* reads the clock: end_date, start_date.
JobBegin(r) ==
    /\ current[r] = 0
    /\ Len(runs) < MaxRuns
    /\ runs' = Append(runs,
                 [trigger |-> r, pc |-> "enumerate",
                  end_date |-> now, start_date |-> now - Week,
                  users |-> <<>>, idx |-> 1,
                  sent_count |-> 0, error_count |-> 0, result |-> <<>>,
                  outcomes |-> <<>>, reports |-> 0, ledgerFailed |-> FALSE,
                  after |-> {i \in DOMAIN runs : Finished(runs[i])}])
    /\ current' = [current EXCEPT ![r] = Len(runs) + 1]
    /\ UNCHANGED <<now, isActive, flag, ledgerVars, emailLog, outbox, faults, aggVars, opsVars>>

\* (mutant) the query of the users without the filter on is_active
EnumerateAllUsers(r) ==
    /\ current[r] # 0 /\ Me(r).pc = "enumerate"
    /\ runs' = [runs EXCEPT ![current[r]] =
                  [@ EXCEPT !.users = SetToSeq(Users), !.pc = "loop"]]
    /\ UNCHANGED <<now, isActive, flag, ledgerVars, emailLog, outbox, current, faults, aggVars, opsVars>>

\* select(User).where(User.is_active == True)
EnumerateUsers(r) ==
    /\ current[r] # 0 /\ Me(r).pc = "enumerate"
    /\ runs' = [runs EXCEPT ![current[r]] =
                  [@ EXCEPT !.users = SetToSeq({u \in Users : isActive[u]}),
                            !.pc = "loop"]]
    /\ UNCHANGED <<now, isActive, flag, ledgerVars, emailLog, outbox, current, faults, aggVars, opsVars>>

\* the query of the users raises: the exception leaves the function and
\* is reported once, by the except of send_weekly_analytics_job or as the
\* HTTP 500 of the admin route
EnumerateUsersRaises(r) ==
    /\ current[r] # 0 /\ Me(r).pc = "enumerate"
    /\ runs' = [runs EXCEPT ![current[r]] =
                  [@ EXCEPT !.pc = "raised", !.reports = @ + 1]]
    /\ current' = [current EXCEPT ![r] = 0]
    /\ faults < MaxFaults
    /\ faults' = faults + 1
    /\ UNCHANGED <<now, isActive, flag, ledgerVars, emailLog, outbox, aggVars, opsVars>>

\* (mutant) the duplicate check without the filter on success
ExistingLogsAnyOutcome(user_id, start_date) ==
    {i \in DOMAIN emailLog :
        /\ emailLog[i].user_id = user_id
        /\ emailLog[i].email_type = ANALYTICS_SUMMARY
        /\ \E s \in emailLog[i].analytics_period_start : s >= start_date}

\* the duplicate check: the rows the query of existing_log selects
ExistingLogs(user_id, start_date) ==
    {i \in DOMAIN emailLog :
        /\ emailLog[i].user_id = user_id
        /\ emailLog[i].email_type = ANALYTICS_SUMMARY
        /\ \E s \in emailLog[i].analytics_period_start : s >= start_date
        /\ emailLog[i].success}

DupCheck(r) ==
    /\ current[r] # 0 /\ Me(r).pc = "loop" /\ Me(r).idx <= Len(Me(r).users)
    /\ runs' = [runs EXCEPT ![current[r]] =
                  IF ExistingLogs(User(@), @.start_date) # {}
                  THEN NextUser(@, "duplicate")
                  ELSE [@ EXCEPT !.pc = "analytics"]]
    /\ UNCHANGED <<now, isActive, flag, ledgerVars, emailLog, outbox, current, faults, aggVars, opsVars>>

DupCheckRaises(r) ==
    /\ current[r] # 0 /\ Me(r).pc = "loop" /\ Me(r).idx <= Len(Me(r).users)
    /\ runs' = [runs EXCEPT ![current[r]] = Except(@)]
    /\ faults < MaxFaults
    /\ faults' = faults + 1
    /\ UNCHANGED <<now, isActive, flag, ledgerVars, emailLog, outbox, current, aggVars, opsVars>>

\* (mutant) the activity test with >= in place of >
HasActivityOrNone(total_clicks) == total_clicks >= 0

\* the threshold of `if analytics_data.get("total_clicks", 0) > 0`
HasActivity(total_clicks) == total_clicks > 0

\* analytics_service.get_analytics(user.id, days=7) and the activity test
JobGetAnalytics(r) ==
    /\ current[r] # 0 /\ Me(r).pc = "analytics"
    /\ runs' = [runs EXCEPT ![current[r]] =
                  IF HasActivity(TotalClicks(User(@), Week, now))
                  THEN [@ EXCEPT !.pc = "send"]
                  ELSE NextUser(@, "no_activity")]
    /\ UNCHANGED <<now, isActive, flag, ledgerVars, emailLog, outbox, current, faults, aggVars, opsVars>>

\* a query of get_analytics raises (the click ledger cannot be reached)
JobGetAnalyticsRaises(r) ==
    /\ current[r] # 0 /\ Me(r).pc = "analytics"
    /\ runs' = [runs EXCEPT ![current[r]] =
                  [Except(@) EXCEPT !.ledgerFailed = TRUE]]
    /\ faults < MaxFaults
    /\ faults' = faults + 1
    /\ UNCHANGED <<now, isActive, flag, ledgerVars, emailLog, outbox, current, aggVars, opsVars>>

\* ---------------------- EmailService.send_analytics_summary / send_email
\* the EmailLog row send_email adds; the period columns are not set there
LogRow(user_id, success) ==
    [user_id |-> user_id, email_type |-> ANALYTICS_SUMMARY, sent_at |-> now,
     success |-> success,
     analytics_period_start |-> {}, analytics_period_end |-> {}]

\* the run counts its current user by the result of send_analytics_summary
Counted(run, success) ==
    IF success
    THEN [NextUser(run, "sent") EXCEPT !.sent_count = @ + 1]
    ELSE [NextUser(run, "send_failed") EXCEPT !.error_count = @ + 1,
                                               !.reports = @ + 1]

\* the feature flag is off: {"success": True} without a send or a log row
SendDisabled(r) ==
    /\ current[r] # 0 /\ Me(r).pc = "send"
    /\ ~flag
    /\ runs' = [runs EXCEPT ![current[r]] = Counted(@, TRUE)]
    /\ UNCHANGED <<now, isActive, flag, ledgerVars, emailLog, outbox, current, faults, aggVars, opsVars>>

\* EmailService.send_email, called with the session, the user and the type.
\* delivered: resend.Emails.send accepts the email (it raises otherwise);
\* logged: the commit of the row with success=True passes;
\* failLogged: the commit of the row with success=False passes.
\*   try:    send, add and commit the row with success=True -> success
\*   except: add and commit the row with success=False      -> failure
\* (the parameters are normalised: logged is TRUE when nothing was
\* delivered, failLogged is TRUE when the except branch does not run.)
\* A commit that raises stores nothing; when the commit of the except
\* branch raises, the exception reaches the handler of the loop.
Failures(delivered, logged, failLogged) ==
    (IF delivered /\ logged THEN 0 ELSE 1)
    + (IF ~(delivered /\ logged) /\ ~failLogged THEN 1 ELSE 0)

SendEmail(r, delivered, logged, failLogged) ==
    /\ current[r] # 0 /\ Me(r).pc = "send"
    /\ flag
    /\ delivered \/ logged
    /\ (delivered /\ logged) => failLogged
    /\ outbox' = IF delivered
                 THEN Append(outbox, [to |-> User(Me(r)), run |-> current[r]])
                 ELSE outbox
    /\ emailLog' = IF delivered /\ logged
                   THEN Append(emailLog, LogRow(User(Me(r)), TRUE))
                   ELSE IF failLogged
                        THEN Append(emailLog, LogRow(User(Me(r)), FALSE))
                        ELSE emailLog
    /\ runs' = [runs EXCEPT ![current[r]] =
                  IF delivered /\ logged
                  THEN [@ EXCEPT !.pc = "tag"]
                  ELSE IF failLogged THEN Counted(@, FALSE) ELSE Except(@)]
    /\ faults' = faults + Failures(delivered, logged, failLogged)
    /\ faults' <= MaxFaults
    /\ UNCHANGED <<now, isActive, flag, ledgerVars, current, aggVars, opsVars>>

\* the rows `select(EmailLog).where(user_id, ANALYTICS_SUMMARY)
\* .order_by(sent_at.desc())` may return first: those of the latest sent_at
LatestLogs(user_id) ==
    LET mine == {i \in DOMAIN emailLog :
                    /\ emailLog[i].user_id = user_id
                    /\ emailLog[i].email_type = ANALYTICS_SUMMARY}
    IN {i \in mine : \A j \in mine : emailLog[j].sent_at <= emailLog[i].sent_at}

\* the row with the period columns written
Tagged(row, period_start, period_end) ==
    [row EXCEPT !.analytics_period_start = {period_start},
                !.analytics_period_end = {period_end}]

\* after a successful send: write the period on the first row of the query
\* and commit; the run counts the user as sent
Tag(r) ==
    /\ current[r] # 0 /\ Me(r).pc = "tag"
    /\ IF LatestLogs(User(Me(r))) = {}
       THEN UNCHANGED emailLog
       ELSE \E i \in LatestLogs(User(Me(r))) :
               emailLog' = [emailLog EXCEPT ![i] =
                              Tagged(@, Me(r).start_date, Me(r).end_date)]
    /\ runs' = [runs EXCEPT ![current[r]] = Counted(@, TRUE)]
    /\ UNCHANGED <<now, isActive, flag, ledgerVars, outbox, current, faults, aggVars, opsVars>>

\* ... the query or the commit raises
TagRaises(r) ==
    /\ current[r] # 0 /\ Me(r).pc = "tag"
    /\ runs' = [runs EXCEPT ![current[r]] = Except(@)]
    /\ faults < MaxFaults
    /\ faults' = faults + 1
    /\ UNCHANGED <<now, isActive, flag, ledgerVars, emailLog, outbox, current, aggVars, opsVars>>

\* the dictionary send_weekly_analytics_emails returns
Result(run) == [sent |-> run.sent_count, errors |-> run.error_count]

\* the loop is over: return the counts
JobReturn(r) ==
    /\ current[r] # 0 /\ Me(r).pc = "loop" /\ Me(r).idx > Len(Me(r).users)
    /\ runs' = [runs EXCEPT ![current[r]] =
                  [@ EXCEPT !.pc = "returned", !.result = <<Result(Me(r))>>]]
    /\ current' = [current EXCEPT ![r] = 0]
    /\ UNCHANGED <<now, isActive, flag, ledgerVars, emailLog, outbox, faults, aggVars, opsVars>>

\* ------------------------------------------ get_analytics_email_stats
\* (mutant) the rows of the statistics without the filter on the type
StatsRowsAnyType(days, t) ==
    {i \in DOMAIN emailLog : emailLog[i].sent_at >= t - days}

\* select(EmailLog).where(email_type == ANALYTICS_SUMMARY,
\*                        sent_at >= cutoff_date), cutoff_date = t - days
StatsRows(days, t) ==
    {i \in DOMAIN emailLog :
        /\ emailLog[i].email_type = ANALYTICS_SUMMARY
        /\ emailLog[i].sent_at >= t - days}

\* max(..., default=None) of a set of clock readings
MaxOrNone(S) == IF S = {} THEN {} ELSE {CHOOSE x \in S : \A y \in S : y <= x}

\* EmailScheduler.get_analytics_email_stats(session, days) at clock reading
\* t.  success_rate is a float: it is kept as the fraction num / den the
\* code divides, times 100.
EmailStats(days, t) ==
    LET logs == StatsRows(days, t)
        total_sent == Cardinality({i \in logs : emailLog[i].success})
        total_failed == Cardinality({i \in logs : ~emailLog[i].success})
    IN [days |-> days,
        total_sent |-> total_sent,
        total_failed |-> total_failed,
        success_rate |-> IF total_sent + total_failed > 0
                         THEN [num |-> total_sent * 100,
                               den |-> total_sent + total_failed]
                         ELSE [num |-> 0, den |-> 1],
        last_sent |-> MaxOrNone({emailLog[i].sent_at :
                                    i \in {j \in logs : emailLog[j].success}})]

\* GET /admin/email-stats?days=
GetEmailStats(days) ==
    /\ lastStats' = EmailStats(days, now)
    /\ UNCHANGED <<now, isActive, flag, ledgerVars, jobVars, aggVars, post, sched>>

\* ------------------------------------------------- tasks/scheduler.py
\* sched.scheduler is the global `scheduler`: 0 for None, else the number
\* of the BackgroundScheduler it refers to; sched.state[k] is the state of
\* scheduler k; sched.handlers counts the functions atexit has registered;
\* sched.exits has the outcome of each one that ran; sched.last is what
\* the last call of start_scheduler or stop_scheduler did.

\* the schedulers that run
Running == {k \in DOMAIN sched.state : sched.state[k] = "running"}

\* start_scheduler(): with no scheduler, create one, start it and register
\* `lambda: scheduler.shutdown()` with atexit; nothing otherwise
StartScheduler ==
    /\ ~sched.exiting
    /\ sched' = IF sched.scheduler = 0
                THEN [sched EXCEPT !.scheduler = Len(sched.state) + 1,
                                   !.state = Append(@, "running"),
                                   !.handlers = @ + 1,
                                   !.last = "started"]
                ELSE [sched EXCEPT !.last = "exists"]
    /\ Len(sched'.state) <= MaxStarts
    /\ UNCHANGED <<now, isActive, flag, ledgerVars, jobVars, aggVars, lastStats, post>>

\* stop_scheduler(): shut the scheduler down (shutdown waits for the job
\* that runs) and set the global to None; nothing with no scheduler
StopScheduler ==
    /\ ~sched.exiting
    /\ sched.scheduler # 0 => current["cron"] = 0
    /\ sched' = IF sched.scheduler # 0
                THEN [sched EXCEPT !.state[sched.scheduler] = "stopped",
                                   !.scheduler = 0,
                                   !.last = "stopped"]
                ELSE [sched EXCEPT !.last = "none"]
    /\ UNCHANGED <<now, isActive, flag, ledgerVars, jobVars, aggVars, lastStats, post>>

\* the cron trigger of the scheduler that runs fires the weekly job
CronFire ==
    /\ sched.scheduler # 0 /\ sched.scheduler \in Running
    /\ JobBegin("cron")

\* the interpreter exits: the registered functions run from here on
Exit ==
    /\ ~sched.exiting
    /\ sched' = [sched EXCEPT !.exiting = TRUE]
    /\ UNCHANGED <<now, isActive, flag, ledgerVars, jobVars, aggVars, lastStats, post>>

\* one registered `lambda: scheduler.shutdown()` runs.  The name scheduler
\* is looked up when the function runs: None.shutdown() raises
\* AttributeError, shutdown() of a scheduler that was shut down raises
\* SchedulerNotRunningError, shutdown() of the running one stops it and
\* leaves the global as it is.
ExitHandler ==
    /\ sched.exiting
    /\ Len(sched.exits) < sched.handlers
    /\ sched.scheduler \in Running => current["cron"] = 0
    /\ sched' = IF sched.scheduler = 0
                THEN [sched EXCEPT !.exits = Append(@, "AttributeError")]
                ELSE IF sched.scheduler \in Running
                     THEN [sched EXCEPT !.state[sched.scheduler] = "stopped",
                                        !.exits = Append(@, "shutdown")]
                     ELSE [sched EXCEPT
                             !.exits = Append(@, "SchedulerNotRunningError")]
    /\ UNCHANGED <<now, isActive, flag, ledgerVars, jobVars, aggVars, lastStats, post>>

\* ------------------------------------------------------ specifications
\* the links at the start: link 1 of user 1, link 2 of user 2
InitLinks ==
    [l \in LinkIds |->
        IF l \in Users
        THEN [exists |-> TRUE, user_id |-> l, is_active |-> TRUE, click_count |-> 0]
        ELSE NoLink]

\* the ledger at the start: a click on the link of user 1 at the time the
\* model starts, a click on the link of user 2 a week before
InitClicks ==
    {Row(1, 1, 0, {"8.8.8.8"}, {}, {"unknown"}, {"unknown"}),
     Row(2, 2, 0 - Week, {"8.8.8.8"}, {}, {"unknown"}, {"unknown"})}

Init ==
    /\ now = 0
    /\ isActive = [u \in Users |-> TRUE]
    /\ links = InitLinks
    /\ clickEvents = InitClicks
    /\ emailLog = <<>>
    /\ outbox = <<>>
    /\ flag \in BOOLEAN
    /\ runs = <<>>
    /\ faults = 0
    /\ current = [r \in Runners |-> 0]
    /\ req = [pc |-> "idle", link_id |-> 0]
    /\ lastAnalytics = NoAnalytics
    /\ lastGeo = NoGeo
    /\ lastTrack = NoTrack
    /\ jobRead = NoRead
    /\ lastStats = NoStats
    /\ post = NoPost
    /\ sched = NoSched

JobStep(r) ==
    \/ JobBegin(r)
    \/ EnumerateUsers(r)
    \/ EnumerateUsersRaises(r)
    \/ DupCheck(r)
    \/ DupCheckRaises(r)
    \/ JobGetAnalytics(r)
    \/ JobGetAnalyticsRaises(r)
    \/ SendDisabled(r)
    \/ \E delivered, logged, failLogged \in BOOLEAN :
            SendEmail(r, delivered, logged, failLogged)
    \/ Tag(r)
    \/ TagRaises(r)
    \/ JobReturn(r)

Next ==
    \/ Tick
    \/ \E r \in Runners : JobStep(r)

Spec == Init /\ [][Next]_vars

\* the start of the ledger specification: user 1 has link 1 with one click
\* a week old, no other link exists yet; send_analytics_emails has its
\* default
InitLedger ==
    /\ now = 0
    /\ isActive = [u \in Users |-> TRUE]
    /\ links = [l \in LinkIds |-> IF l = 1 THEN InitLinks[l] ELSE NoLink]
    /\ clickEvents = {Row(1, 1, 0 - Week, {"8.8.8.8"}, {}, {"unknown"}, {"unknown"})}
    /\ emailLog = <<>>
    /\ outbox = <<>>
    /\ flag = TRUE
    /\ runs = <<>>
    /\ faults = 0
    /\ current = [r \in Runners |-> 0]
    /\ req = [pc |-> "idle", link_id |-> 0]
    /\ lastAnalytics = NoAnalytics
    /\ lastGeo = NoGeo
    /\ lastTrack = NoTrack
    /\ jobRead = NoRead
    /\ lastStats = NoStats
    /\ post = NoPost
    /\ sched = NoSched

\* the redirect requests of the ledger specification: no User-Agent header,
\* the address get_client_ip falls back to, no GeoLite2 file on the disk
LedgerRequests ==
    {[ip_address |-> {"8.8.8.8"}, user_agent |-> {},
      lookup |-> [raises |-> "FileNotFoundError", iso_code |-> {}]]}

\* the click ledger with the requests that write and read it
NextLedger ==
    \/ Tick
    \/ \E u \in Users : CreateLink(u)
    \/ \E l \in LinkIds, active \in BOOLEAN : UpdateLink(l, active)
    \/ \E l \in LinkIds : DeleteLink(l)
    \/ \E l \in LinkIds : PostClick(l)
    \/ \E l \in LinkIds : RedirectBegin(l)
    \/ \E rq \in LedgerRequests : RedirectTrack(rq)
    \/ \E rq \in LedgerRequests : RedirectTrackRaises(rq)
    \/ RedirectIncrement
    \/ \E u \in Users : GetAnalytics(u, Week)

SpecLedger == InitLedger /\ [][NextLedger]_vars

\* --------------------------------------- the aggregator specifications
Owners == {1, 2, 3}

AggregateLinks ==
    [l \in 1..7 |-> [exists |-> TRUE, user_id |-> IF l <= 6 THEN 1 ELSE 2,
                      is_active |-> TRUE, click_count |-> 0]]

InitAggregate ==
    /\ now = 0
    /\ isActive = [u \in Owners |-> TRUE]
    /\ links = AggregateLinks
    /\ clickEvents = AggregateClicks
    /\ emailLog = <<>>
    /\ outbox = <<>>
    /\ flag = TRUE
    /\ runs = <<>>
    /\ faults = 0
    /\ current = [r \in Runners |-> 0]
    /\ req = [pc |-> "idle", link_id |-> 0]
    /\ lastAnalytics = NoAnalytics
    /\ lastGeo = NoGeo
    /\ lastTrack = NoTrack
    /\ jobRead = NoRead
    /\ lastStats = NoStats
    /\ post = NoPost
    /\ sched = NoSched

\* the links that are clicked while the model runs: one of user 1, the
\* link of user 2
ClickedLinks == {6, 7}

\* the User-Agent headers of the model with the answers of the parser
UserAgents ==
    {[string |-> "Mozilla/5.0 (iPhone)", is_mobile |-> TRUE, is_tablet |-> TRUE,
      is_pc |-> FALSE, family |-> "Mobile Safari"],
     [string |-> "Mozilla/5.0 (iPad)", is_mobile |-> FALSE, is_tablet |-> TRUE,
      is_pc |-> TRUE, family |-> "Chrome"],
     [string |-> "Mozilla/5.0 (X11)", is_mobile |-> FALSE, is_tablet |-> FALSE,
      is_pc |-> TRUE, family |-> "Firefox"],
     [string |-> "probe", is_mobile |-> FALSE, is_tablet |-> FALSE,
      is_pc |-> FALSE, family |-> ""],
     [string |-> "", is_mobile |-> FALSE, is_tablet |-> FALSE,
      is_pc |-> FALSE, family |-> "Other"]}

\* what the GeoIP2 reader does: it answers with a country or without one,
\* or it raises: the address is not in the database, the file is missing,
\* the file cannot be read, the address is not an IP address, the file is
\* not a database
Lookups ==
    {[raises |-> "", iso_code |-> {"US"}],
     [raises |-> "", iso_code |-> {}],
     [raises |-> "AddressNotFoundError", iso_code |-> {}],
     [raises |-> "FileNotFoundError", iso_code |-> {}],
     [raises |-> "OSError", iso_code |-> {}],
     [raises |-> "ValueError", iso_code |-> {}],
     [raises |-> "InvalidDatabaseError", iso_code |-> {}]}

\* the calls of track_click of the enrichment specification: an address
\* with every User-Agent header and with every answer of the reader; no
\* address and the empty string, for which the reader is not asked; a
\* string that is no IP address, for which the reader raises ValueError
\* once the database is open
Requests ==
    {[ip_address |-> {"1.1.1.1"}, user_agent |-> ua,
      lookup |-> [raises |-> "", iso_code |-> {"US"}]] :
        ua \in {{}} \cup {{x} : x \in UserAgents}}
    \cup {[ip_address |-> {"1.1.1.1"}, user_agent |-> {}, lookup |-> lookup] :
          lookup \in {x \in Lookups : x.raises # "ValueError"}}
    \cup {[ip_address |-> ip, user_agent |-> ua,
           lookup |-> [raises |-> "FileNotFoundError", iso_code |-> {}]] :
          ip \in {{}, {""}},
          ua \in {{}, {CHOOSE x \in UserAgents : x.family = "Firefox"}}}
    \cup {[ip_address |-> {"unknown"}, user_agent |-> {}, lookup |-> lookup] :
          lookup \in {x \in Lookups : x.raises \in {"ValueError", "FileNotFoundError"}}}

\* the calls of track_click of the aggregator specification
AggregateRequests ==
    {[ip_address |-> {"1.1.1.1"},
      user_agent |-> {CHOOSE x \in UserAgents : x.family = "Mobile Safari"},
      lookup |-> [raises |-> "", iso_code |-> {"US"}]],
     [ip_address |-> {"3.3.3.3"},
      user_agent |-> {CHOOSE x \in UserAgents : x.family = "Firefox"},
      lookup |-> [raises |-> "AddressNotFoundError", iso_code |-> {}]]}

\* the window lengths asked for: one day, two days
Windows == {TicksPerDay, 2 * TicksPerDay}

NextAggregate ==
    \/ Tick
    \/ \E l \in ClickedLinks, rq \in AggregateRequests : TrackClickCall(l, rq)
    \/ \E u \in Owners, days \in Windows : GetAnalytics(u, days)

SpecAggregate == InitAggregate /\ [][NextAggregate]_vars

NextTrack ==
    \/ Tick
    \/ \E l \in ClickedLinks, rq \in Requests : TrackClickCall(l, rq)

SpecTrack == InitAggregate /\ [][NextTrack]_vars

\* the scheduler thread reads the analytics while clicks are tracked
NextJobRead ==
    \/ Tick
    \/ \E l \in ClickedLinks, rq \in AggregateRequests : TrackClickCall(l, rq)
    \/ \E u \in Owners : JobReadBegin(u)
    \/ JobReadQuery

SpecJobRead == InitAggregate /\ [][NextJobRead]_vars

\* ------------------------------------------ the geographic specification
\* the clicks with a country the specification starts from: GeoCounts[k]
\* clicks from country GeoCodes[k] on link 1 of user 1, all a tick before
\* the start; XK is not in the table of the names
GeoCodes == <<"US", "GB", "CA", "AU", "DE", "FR", "IT", "ES", "XK", "NL", "BR">>
GeoCounts == <<10, 9, 8, 7, 6, 5, 4, 3, 2, 1, 1>>

\* ... from two addresses in turn, every third click without an address;
\* two clicks without a country on link 1; on link 7 of user 2 a click
\* inside the windows and one before them
GeoClicks ==
    UNION {{Row(100 * k + j, 1, 0 - 1,
                IF j % 3 = 0 THEN {}
                ELSE IF j % 2 = 0 THEN {"2.2.2.2"} ELSE {"1.1.1.1"},
                {GeoCodes[k]}, {"mobile"}, {"Chrome"}) : j \in 1..GeoCounts[k]} :
           k \in DOMAIN GeoCodes}
    \cup {Row(1, 1, 0 - 1, {"1.1.1.1"}, {}, {"desktop"}, {"Chrome"}),
          Row(2, 1, 0, {}, {}, {"unknown"}, {"unknown"}),
          Row(3, 7, 0 - 1, {"1.1.1.1"}, {"US"}, {"desktop"}, {"Firefox"}),
          Row(4, 7, 0 - 5, {"2.2.2.2"}, {"GB"}, {"desktop"}, {"Firefox"})}

InitGeo ==
    /\ now = 0
    /\ isActive = [u \in Owners |-> TRUE]
    /\ links = AggregateLinks
    /\ clickEvents = GeoClicks
    /\ emailLog = <<>>
    /\ outbox = <<>>
    /\ flag = TRUE
    /\ runs = <<>>
    /\ faults = 0
    /\ current = [r \in Runners |-> 0]
    /\ req = [pc |-> "idle", link_id |-> 0]
    /\ lastAnalytics = NoAnalytics
    /\ lastGeo = NoGeo
    /\ lastTrack = NoTrack
    /\ jobRead = NoRead
    /\ lastStats = NoStats
    /\ post = NoPost
    /\ sched = NoSched

NextGeo ==
    \/ Tick
    \/ \E l \in ClickedLinks, rq \in AggregateRequests : TrackClickCall(l, rq)
    \/ \E u \in Owners, days \in Windows : GetGeographicAnalytics(u, days)

SpecGeo == InitGeo /\ [][NextGeo]_vars

\* ------------------------------------ the duplicate-check specification
\* EmailLog rows earlier runs and other emails left behind, all sent one
\* clock reading before the start: a successful summary of user 1 for the
\* period that began a week before the start; a failed summary of user 1
\* (no period is written for it); a welcome email of user 1; a successful
\* summary of user 2 for the period that begins at the start; a successful
\* summary of user 1 whose period was never written; a failed summary of
\* user 1 that carries a period
PriorRows ==
    {[user_id |-> 1, email_type |-> ANALYTICS_SUMMARY, sent_at |-> 0 - 1,
      success |-> TRUE, analytics_period_start |-> {0 - Week},
      analytics_period_end |-> {0}],
     [user_id |-> 1, email_type |-> ANALYTICS_SUMMARY, sent_at |-> 0 - 1,
      success |-> FALSE, analytics_period_start |-> {},
      analytics_period_end |-> {}],
     [user_id |-> 1, email_type |-> "welcome", sent_at |-> 0 - 1,
      success |-> TRUE, analytics_period_start |-> {},
      analytics_period_end |-> {}],
     [user_id |-> 2, email_type |-> ANALYTICS_SUMMARY, sent_at |-> 0 - 1,
      success |-> TRUE, analytics_period_start |-> {0},
      analytics_period_end |-> {Week}],
     [user_id |-> 1, email_type |-> ANALYTICS_SUMMARY, sent_at |-> 0 - 1,
      success |-> TRUE, analytics_period_start |-> {},
      analytics_period_end |-> {}],
     [user_id |-> 1, email_type |-> ANALYTICS_SUMMARY, sent_at |-> 0 - 1,
      success |-> FALSE, analytics_period_start |-> {0},
      analytics_period_end |-> {Week}]}

\* the EmailLog tables the specification starts from: empty, one row, two
PriorLogs ==
    {<<>>} \cup {<<x>> : x \in PriorRows}
           \cup {<<x, y>> : x \in PriorRows, y \in PriorRows}

InitDup ==
    /\ now = 0
    /\ isActive = [u \in Users |-> TRUE]
    /\ links = InitLinks
    /\ clickEvents = InitClicks
    /\ emailLog \in PriorLogs
    /\ outbox = <<>>
    /\ flag = TRUE
    /\ runs = <<>>
    /\ faults = 0
    /\ current = [r \in Runners |-> 0]
    /\ req = [pc |-> "idle", link_id |-> 0]
    /\ lastAnalytics = NoAnalytics
    /\ lastGeo = NoGeo
    /\ lastTrack = NoTrack
    /\ jobRead = NoRead
    /\ lastStats = NoStats
    /\ post = NoPost
    /\ sched = NoSched

\* the cron trigger alone, with the feature flag on
NextDup ==
    \/ Tick
    \/ JobBegin("cron")
    \/ EnumerateUsers("cron")
    \/ DupCheck("cron")
    \/ JobGetAnalytics("cron")
    \/ \E delivered, logged, failLogged \in BOOLEAN :
            SendEmail("cron", delivered, logged, failLogged)
    \/ Tag("cron")
    \/ JobReturn("cron")

SpecDup == InitDup /\ [][NextDup]_vars

\* --------------------------------------- the active-users specification
\* any of the users may have been deactivated before the start; both have
\* a click inside the first window
InitUsers ==
    /\ now = 0
    /\ isActive \in [Users -> BOOLEAN]
    /\ links = InitLinks
    /\ clickEvents = InitClicks
    /\ emailLog = <<>>
    /\ outbox = <<>>
    /\ flag = TRUE
    /\ runs = <<>>
    /\ faults = 0
    /\ current = [r \in Runners |-> 0]
    /\ req = [pc |-> "idle", link_id |-> 0]
    /\ lastAnalytics = NoAnalytics
    /\ lastGeo = NoGeo
    /\ lastTrack = NoTrack
    /\ jobRead = NoRead
    /\ lastStats = NoStats
    /\ post = NoPost
    /\ sched = NoSched

\* the cron trigger while users deactivate their accounts
NextUsers ==
    \/ Tick
    \/ \E u \in Users, active \in BOOLEAN : UpdateUser(u, active)
    \/ JobBegin("cron")
    \/ EnumerateUsers("cron")
    \/ DupCheck("cron")
    \/ JobGetAnalytics("cron")
    \/ \E delivered, logged, failLogged \in BOOLEAN :
            SendEmail("cron", delivered, logged, failLogged)
    \/ Tag("cron")
    \/ JobReturn("cron")

SpecUsers == InitUsers /\ [][NextUsers]_vars

\* ------------------------------------------ the run-to-the-end specification
\* the steps of a run of trigger r once it has begun
JobRun(r) ==
    \/ EnumerateUsers(r)
    \/ EnumerateUsersRaises(r)
    \/ DupCheck(r)
    \/ DupCheckRaises(r)
    \/ JobGetAnalytics(r)
    \/ JobGetAnalyticsRaises(r)
    \/ SendDisabled(r)
    \/ \E delivered, logged, failLogged \in BOOLEAN :
            SendEmail(r, delivered, logged, failLogged)
    \/ Tag(r)
    \/ TagRaises(r)
    \/ JobReturn(r)

NextFair ==
    \/ Tick
    \/ JobBegin("cron")
    \/ JobRun("cron")

\* the thread of the job goes on with its next statement: a call of the
\* store or of the transport returns or raises
SpecFair == Init /\ [][NextFair]_vars /\ WF_vars(JobRun("cron"))

\* ------------------------------------ the scheduler lifecycle specification
\* the process from the import of tasks/scheduler.py to its exit: the
\* lifespan of the application calls start_scheduler and stop_scheduler,
\* the scheduler that runs fires the job
NextSched ==
    \/ Tick
    \/ StartScheduler
    \/ StopScheduler
    \/ CronFire
    \/ JobRun("cron")
    \/ Exit
    \/ ExitHandler

SpecSched == Init /\ [][NextSched]_vars

\* ------------------------------------ the top-links failure specification
NextTopFault ==
    \/ Tick
    \/ \E l \in ClickedLinks, rq \in AggregateRequests : TrackClickCall(l, rq)
    \/ \E u \in Owners, days \in Windows : GetAnalytics(u, days)
    \/ \E u \in Owners, days \in Windows, l \in DOMAIN links :
            GetAnalyticsRaises(u, days, l)

SpecTopFault == InitAggregate /\ [][NextTopFault]_vars

\* ------------------------------------------ the statistics specification
\* the EmailLog table the specification starts from: a successful and a
\* failed summary of user 1 and a welcome email, sent one clock reading
\* before the start, and a successful summary sent three days before
StatsLog ==
    <<[user_id |-> 1, email_type |-> ANALYTICS_SUMMARY, sent_at |-> 0 - 1,
       success |-> TRUE, analytics_period_start |-> {0 - Week},
       analytics_period_end |-> {0}],
      [user_id |-> 1, email_type |-> ANALYTICS_SUMMARY, sent_at |-> 0 - 1,
       success |-> FALSE, analytics_period_start |-> {},
       analytics_period_end |-> {}],
      [user_id |-> 1, email_type |-> "welcome", sent_at |-> 0 - 1,
       success |-> TRUE, analytics_period_start |-> {},
       analytics_period_end |-> {}],
      [user_id |-> 2, email_type |-> ANALYTICS_SUMMARY,
       sent_at |-> 0 - 3 * TicksPerDay, success |-> TRUE,
       analytics_period_start |-> {}, analytics_period_end |-> {}]>>

InitStats ==
    /\ now = 0
    /\ isActive = [u \in Users |-> TRUE]
    /\ links = InitLinks
    /\ clickEvents = InitClicks
    /\ emailLog = StatsLog
    /\ outbox = <<>>
    /\ flag = TRUE
    /\ runs = <<>>
    /\ faults = 0
    /\ current = [r \in Runners |-> 0]
    /\ req = [pc |-> "idle", link_id |-> 0]
    /\ lastAnalytics = NoAnalytics
    /\ lastGeo = NoGeo
    /\ lastTrack = NoTrack
    /\ jobRead = NoRead
    /\ lastStats = NoStats
    /\ post = NoPost
    /\ sched = NoSched

\* the statistics asked for one day and for two while the cron trigger
\* writes rows
NextStats ==
    \/ Tick
    \/ \E days \in Windows : GetEmailStats(days)
    \/ JobBegin("cron")
    \/ EnumerateUsers("cron")
    \/ DupCheck("cron")
    \/ JobGetAnalytics("cron")
    \/ \E delivered, logged, failLogged \in BOOLEAN :
            SendEmail("cron", delivered, logged, failLogged)
    \/ Tag("cron")
    \/ JobReturn("cron")

SpecStats == InitStats /\ [][NextStats]_vars

\* ------------------------------------------- the click-counter specification
\* requests that increment click_count while others are served
NextCounter ==
    \/ Tick
    \/ \E l \in LinkIds, active \in BOOLEAN : UpdateLink(l, active)
    \/ \E l \in LinkIds : PostClick(l)
    \/ \E l \in LinkIds : PostClickGet(l)
    \/ PostClickCommit
    \/ \E l \in LinkIds : RedirectBegin(l)
    \/ \E rq \in LedgerRequests : RedirectTrack(rq)
    \/ RedirectIncrement

SpecCounter == InitLedger /\ [][NextCounter]_vars

\* ============================================================== claims
\* what a run did with user u: the outcomes it recorded for u
OutcomesOf(k, u) ==
    {runs[k].outcomes[i].outcome : i \in {j \in DOMAIN runs[k].outcomes :
                                            runs[k].outcomes[j].user = u}}

\* the emails the transport accepted for user u from the runs in K
Delivered(K, u) == {i \in DOMAIN outbox : outbox[i].to = u /\ outbox[i].run \in K}

\* run b began right after run a had returned, less than a week after it
\* began, and has returned too: the two runs cover the same 7 days
InSuccession(a, b) ==
    /\ b = a + 1
    /\ a \in runs[b].after
    /\ runs[a].pc = "returned" /\ runs[b].pc = "returned"
    /\ runs[b].start_date - runs[a].start_date < Week

\* C1: when the weekly job runs to completion twice in immediate succession
\* for the same 7 days, every user is sent at most one summary over the two
\* runs, and a user the first run sent a summary to is skipped by the
\* duplicate check of the second run.  (Stated for behaviours without any
\* failure of the store or of the transport.)
DuplicateSuppression ==
    \A a, b \in DOMAIN runs :
        (faults = 0 /\ InSuccession(a, b)) =>
            \A u \in Users :
                /\ Cardinality(Delivered({a, b}, u)) <= 1
                /\ Delivered({a}, u) # {} => OutcomesOf(b, u) = {"duplicate"}

\* C2: at any time at most one execution of the weekly job is running
SingleFlight == Cardinality({r \in Runners : current[r] # 0}) <= 1

\* the rows of a successful summary to user u for the period starting at s
SuccessRows(u, s) ==
    {i \in DOMAIN emailLog :
        /\ emailLog[i].user_id = u
        /\ emailLog[i].email_type = ANALYTICS_SUMMARY
        /\ emailLog[i].success
        /\ emailLog[i].analytics_period_start = {s}}

\* C3: for each user and each analytics_period_start there is at most one
\* EmailLog row of type analytics_summary with success = true
OneSuccessPerPeriod ==
    \A i \in DOMAIN emailLog :
        \A s \in emailLog[i].analytics_period_start :
            Cardinality(SuccessRows(emailLog[i].user_id, s)) <= 1

\* C4: the iteration of a user whose 7-day analytics have total_clicks = 0
\* ends at the activity test: no email is sent, the EmailLog table is
\* unchanged, the run goes on with the next user and counts nothing
ZeroActivitySkip ==
    [][\A r \in Runners :
          LET k == current[r] IN
          (/\ k # 0
           /\ runs[k].pc = "analytics"
           /\ runs'[k] # runs[k]
           /\ faults' = faults
           /\ TotalClicks(User(runs[k]), Week, now) = 0)
          => /\ emailLog' = emailLog
             /\ outbox' = outbox
             /\ runs'[k] = NextUser(runs[k], "no_activity")]_vars

\* C4 witness: a run sent a summary to user 1 and skipped user 2, who had
\* no click in the window
ZeroActivitySkipped ==
    \E k \in DOMAIN runs :
        /\ OutcomesOf(k, 1) = {"sent"}
        /\ OutcomesOf(k, 2) = {"no_activity"}
        /\ Delivered({k}, 2) = {}

\* the users a run counted as errors
Failed(run) ==
    {i \in DOMAIN run.outcomes : run.outcomes[i].outcome \in {"error", "send_failed"}}

\* C5: a failure while a user is processed is caught and counted in errors;
\* the loop goes on, every enumerated user is handled once, in order, and
\* the run returns its counts: only the query of the users makes it raise
FailureIsolation ==
    \A k \in DOMAIN runs :
        LET run == runs[k] IN
        /\ run.pc = "raised" => run.users = <<>> /\ run.outcomes = <<>>
        /\ run.pc \notin {"enumerate", "raised"} =>
              /\ Len(run.outcomes) = run.idx - 1
              /\ \A i \in DOMAIN run.outcomes : run.outcomes[i].user = run.users[i]
        /\ run.error_count = Cardinality(Failed(run))
        /\ run.pc = "returned" =>
              /\ Len(run.outcomes) = Len(run.users)
              /\ run.result = <<[sent |-> run.sent_count,
                                 errors |-> Cardinality(Failed(run))]>>

\* C5 witness: a run that failed on its first user, sent the summary of
\* the second and returned {sent: 1, errors: 1}
FailureIsolated ==
    \E k \in DOMAIN runs :
        /\ runs[k].pc = "returned"
        /\ Len(runs[k].outcomes) = 2
        /\ runs[k].outcomes[1].outcome \in {"error", "send_failed"}
        /\ runs[k].outcomes[2].outcome = "sent"
        /\ runs[k].result = <<[sent |-> 1, errors |-> 1]>>

\* C6: once a run has dispatched the summary of a user, sent or failed, an
\* EmailLog row of that user carries the period of the run
DispatchRecordsPeriod ==
    \A k \in DOMAIN runs :
        \A i \in DOMAIN runs[k].outcomes :
            (flag /\ runs[k].outcomes[i].outcome \in {"sent", "send_failed"}) =>
                \E j \in DOMAIN emailLog :
                    /\ emailLog[j].user_id = runs[k].outcomes[i].user
                    /\ emailLog[j].email_type = ANALYTICS_SUMMARY
                    /\ emailLog[j].analytics_period_start = {runs[k].start_date}
                    /\ emailLog[j].analytics_period_end = {runs[k].end_date}

\* C7: a completed run reports sent, errors and skipped, and the three add
\* up to the number of users enumerated
ReportsThreeCounts ==
    \A k \in DOMAIN runs :
        runs[k].pc = "returned" =>
            LET res == runs[k].result[1] IN
            /\ DOMAIN res = {"sent", "errors", "skipped"}
            /\ res.sent + res.errors + res.skipped = Len(runs[k].users)

\* C8: when the users cannot be read or the click ledger cannot be reached,
\* the run is aborted and the failure is reported once
BatchFailureAborts ==
    \A k \in DOMAIN runs :
        (runs[k].pc = "raised" \/ runs[k].ledgerFailed) =>
            /\ runs[k].pc = "raised"
            /\ runs[k].reports = 1

\* the click events of the links of user u with a timestamp in [start, end]
InWindowEvents(u, start, end) ==
    {e \in clickEvents :
        /\ links[e.link_id].exists
        /\ links[e.link_id].user_id = u
        /\ start <= e.clicked_at /\ e.clicked_at <= end}

LedgerAppendOnly ==
    [][/\ clickEvents \subseteq clickEvents'
       /\ IF req.pc = "track" /\ req'.pc = "increment"
          THEN Cardinality(clickEvents') = Cardinality(clickEvents) + 1
          ELSE clickEvents' = clickEvents
       /\ \A e1, e2 \in clickEvents' : e1.id = e2.id => e1 = e2]_vars

\* C10 witness: two tracked clicks were added to the click of the start
LedgerAppended ==
    /\ \E e \in clickEvents : e.id = 1 /\ e.link_id = 1 /\ e.clicked_at = 0 - Week
    /\ Cardinality(clickEvents) = 3
    /\ req.pc = "idle"

\* user u owns no link
OwnsNoLink(u) == \A l \in DOMAIN links : ~(links[l].exists /\ links[l].user_id = u)

\* the all-zero, all-empty summary
IsEmptySummary(r) ==
    /\ r.total_clicks = 0
    /\ r.unique_visitors = 0
    /\ r.daily_stats = <<>>
    /\ r.top_links = <<>>
    /\ r.device_stats = {}
    /\ r.growth_percentage = 0

\* C11: for a user who owns no links, get_analytics returns the all-zero
\* summary for every window length, whatever click events exist for the
\* links of other users
EmptySummaryWithoutLinks ==
    [][(lastAnalytics' # lastAnalytics /\ OwnsNoLink(lastAnalytics'.user_id))
          => IsEmptySummary(lastAnalytics')]_vars

\* C11 witness: user 3, who owns no link, was served the empty summary for
\* two days while the links of the others have clicks inside the window,
\* one of them tracked since the start
EmptySummaryServed ==
    /\ lastAnalytics.user_id = 3
    /\ lastAnalytics.days = 2 * TicksPerDay
    /\ IsEmptySummary(lastAnalytics)
    /\ OwnsNoLink(3)
    /\ \E e \in clickEvents :
          /\ e \notin AggregateClicks
          /\ e.clicked_at >= now - lastAnalytics.days
          /\ e.clicked_at <= now

\* total_clicks of response r is the number of click events of the links
\* of the user with a timestamp in [end_date - days, end_date]
CountsClosedWindow(r, t) ==
    r.total_clicks =
        Cardinality(InWindowEvents(r.user_id, t - r.days, t))

\* C12: total_clicks of get_analytics is exactly the number of click events
\* of the user's links in the closed window [start, end], end being the
\* time the computation started: events of other links, events before
\* start and events after end are not counted
TotalClicksClosedWindow ==
    [][/\ (jobRead'.pc = "done" /\ jobRead.pc = "query")
            => CountsClosedWindow(jobRead'.response, jobRead.end_date)
       /\ lastAnalytics' # lastAnalytics => CountsClosedWindow(lastAnalytics', now)]_vars

\* the distance of a and b
Dist(a, b) == IF a < b THEN b - a ELSE a - b

\* g, in tenths, is n / d rounded to one decimal (d > 0)
IsRounded(g, n, d) == 2 * Dist(g * d, 10 * n) <= d

\* the growth of response r is the one the claim gives for the clicks of
\* the current window [start, end] and of the window [start - days, start)
GrowthOf(r, t) ==
    LET start == t - r.days
        cur == Cardinality(InWindowEvents(r.user_id, start, t))
        prev == Cardinality({e \in InWindowEvents(r.user_id, start - r.days, start) :
                                    e.clicked_at < start})
        g == r.growth_percentage
    IN /\ (prev = 0 /\ cur > 0) => g = 1000
       /\ (prev = 0 /\ cur = 0) => g = 0
       /\ prev > 0 => /\ IsRounded(g, 100 * (cur - prev), prev)
                          /\ cur < prev => g < 0

InWindowOfLink(r, t, l) ==
    {e \in InWindowEvents(r.user_id, t - r.days, t) :
        e.link_id = l}

\* the sum of the percentages of the entries of a list
RECURSIVE SumOfPercentages(_)
SumOfPercentages(entries) ==
    IF entries = <<>> THEN 0
    ELSE Head(entries).percentage + SumOfPercentages(Tail(entries))

\* top_links of response r is what the claim says
TopLinksOf(r, t) ==
    LET tl == r.top_links
        mine == {l \in DOMAIN links : links[l].exists /\ links[l].user_id = r.user_id}
        total == Cardinality(InWindowEvents(r.user_id, t - r.days, t))
        listed == {tl[i].link_id : i \in DOMAIN tl}
    IN /\ Len(tl) <= 5
       /\ Len(tl) = (IF Cardinality(mine) < 5 THEN Cardinality(mine) ELSE 5)
       /\ listed \subseteq mine
       /\ Cardinality(listed) = Len(tl)
       /\ \A i \in DOMAIN tl :
            /\ tl[i].clicks = Cardinality(InWindowOfLink(r, t, tl[i].link_id))
            /\ \A j \in DOMAIN tl : i < j => tl[i].clicks >= tl[j].clicks
            /\ \A l \in mine \ listed :
                  Cardinality(InWindowOfLink(r, t, l)) <= tl[i].clicks
            /\ IF total = 0 THEN tl[i].percentage = 0
               ELSE IsRounded(tl[i].percentage, 100 * tl[i].clicks, total)
       /\ 2 * SumOfPercentages(tl) <= 2000 + Len(tl)

InWindowOnDate(r, t, d) ==
    {e \in InWindowEvents(r.user_id, t - r.days, t) :
        e.clicked_at \div TicksPerDay = d}

\* daily_stats of response r is what the claim says
DailySeriesOf(r, t) ==
    LET ds == r.daily_stats
        window == InWindowEvents(r.user_id, t - r.days, t)
    IN /\ \A i \in DOMAIN ds :
            /\ ds[i].clicks > 0
            /\ ds[i].clicks = Cardinality(InWindowOnDate(r, t, ds[i].date))
            /\ \A j \in DOMAIN ds : i < j => ds[i].date < ds[j].date
       /\ {ds[i].date : i \in DOMAIN ds} =
             {e.clicked_at \div TicksPerDay : e \in window}

\* C15: daily_stats has exactly one point for each calendar date with a
\* click of the user's links inside the window, none for a date without,
\* in strictly ascending order of the dates, and the clicks of a point are
\* the clicks inside the window on that date
DailySeriesSparse ==
    [][lastAnalytics' # lastAnalytics => DailySeriesOf(lastAnalytics', now)]_vars

\* C15 witness: user 1 was served, for one day at clock reading 1, a series
\* of two points: the date before with the clicks of its second half only
\* (the window begins in the middle of that date), and the date of the
\* request; the clicks of the two add up to total_clicks
DailySeriesServed ==
    /\ lastAnalytics.user_id = 1
    /\ lastAnalytics.days = TicksPerDay
    /\ now = 1
    /\ Len(lastAnalytics.daily_stats) = 2
    /\ lastAnalytics.daily_stats[1].date = 0 - 1
    /\ lastAnalytics.daily_stats[1].clicks <
          Cardinality({e \in clickEvents : /\ links[e.link_id].user_id = 1
                                           /\ e.clicked_at \div TicksPerDay = 0 - 1})
    /\ lastAnalytics.daily_stats[2].date = 0
    /\ lastAnalytics.daily_stats[1].clicks + lastAnalytics.daily_stats[2].clicks
          = lastAnalytics.total_clicks

\* the clicks inside the window of response r that have a device type
DeviceTagged(r, t) ==
    {e \in InWindowEvents(r.user_id, t - r.days, t) :
        e.device_type # {}}

\* device_stats of response r is what the claim says
DeviceBreakdownOf(r, t) ==
    LET tagged == DeviceTagged(r, t)
        types == UNION {e.device_type : e \in tagged}
    IN /\ {s.device_type : s \in r.device_stats} = types
       /\ Cardinality(r.device_stats) = Cardinality(types)
       /\ \A s \in r.device_stats :
            /\ s.count = Cardinality({e \in tagged : e.device_type = {s.device_type}})
            /\ s.count >= 1
            /\ IsRounded(s.percentage, 100 * s.count, Cardinality(tagged))
       /\ tagged = {} => r.device_stats = {}

UniqueVisitorsOf(r, t) ==
    LET window == InWindowEvents(r.user_id, t - r.days, t)
    IN /\ r.unique_visitors = Cardinality(UNION {e.ip_address : e \in window})
       /\ r.total_clicks = Cardinality(window)
       /\ r.unique_visitors <= r.total_clicks

CountryTagged(r, t) ==
    {e \in InWindowEvents(r.user_id, t - r.days, t) :
        e.country # {}}

\* the geographic response r is what the claim says
GeographicOf(r, t) ==
    LET tc == r.top_countries
        tagged == CountryTagged(r, t)
        codes == UNION {e.country : e \in tagged}
        listed == {tc[i].country_code : i \in DOMAIN tc}
        ClicksOf(c) == Cardinality({e \in tagged : e.country = {c}})
    IN /\ r.city_breakdown = <<>>
       /\ OwnsNoLink(r.user_id) =>
            /\ r.total_countries = 0
            /\ tc = <<>>
            /\ r.geographic_trends = <<>>
       /\ Len(tc) <= 10
       /\ Len(tc) = (IF Cardinality(codes) < 10 THEN Cardinality(codes) ELSE 10)
       /\ listed \subseteq codes
       /\ Cardinality(listed) = Len(tc)
       /\ \A i \in DOMAIN tc :
            /\ tc[i].clicks = ClicksOf(tc[i].country_code)
            /\ \A j \in DOMAIN tc : i < j => tc[i].clicks >= tc[j].clicks
            /\ \A c \in codes \ listed : ClicksOf(c) <= tc[i].clicks
            /\ tc[i].unique_visitors =
                  Cardinality(UNION {e.ip_address :
                        e \in {x \in tagged : x.country = {tc[i].country_code}}})
            /\ IsRounded(tc[i].percentage, 100 * tc[i].clicks, Cardinality(tagged))
            /\ tc[i].country_name =
                  (IF tc[i].country_code \in DOMAIN CountryNames
                   THEN CountryNames[tc[i].country_code]
                   ELSE tc[i].country_code)

\* C18: get_geographic_analytics groups the clicks of the user's links
\* inside the window that have a country by country code: top_countries
\* has at most 10 entries in descending order of clicks, each with its
\* clicks, its distinct addresses and clicks / (clicks with a country) *
\* 100 rounded to one decimal; country_name is the name of the static
\* table, the code itself when the table has none; city_breakdown is
\* empty; a user without links gets the all-empty response
GeographicBreakdown ==
    [][lastGeo' # lastGeo => GeographicOf(lastGeo', now)]_vars

\* C18 witness: user 1, with clicks from eleven countries, was served ten
\* of them: US first with 10 of 56 clicks (17.9) from two addresses, XK
\* under its code, BR last, tied with NL that is left out
GeographicServed ==
    /\ lastGeo.user_id = 1
    /\ lastGeo.total_countries = 10
    /\ lastGeo.top_countries[1] =
          [country_code |-> "US", country_name |-> "United States",
           clicks |-> 10, percentage |-> 179, unique_visitors |-> 2]
    /\ lastGeo.top_countries[9].country_name = "XK"
    /\ lastGeo.top_countries[10].country_code = "BR"
    /\ lastGeo.city_breakdown = <<>>

\* C19: the lookup of the country never fails the caller: for every
\* ip_address passed to track_click and every state of the lookup, the
\* call does not raise and appends the click event, with the country the
\* lookup gave or without one
GeoLookupNeverFails ==
    lastTrack.calls > 0 =>
        /\ ~lastTrack.raised
        /\ \E e \in clickEvents :
              /\ e.id = lastTrack.id
              /\ e.link_id = lastTrack.link_id
              /\ e.country \subseteq lastTrack.rq.lookup.iso_code

\* the device type the claim gives for a User-Agent header
DeviceByPriority(user_agent) ==
    IF user_agent = {} THEN "unknown"
    ELSE LET ua == CHOOSE x \in user_agent : TRUE
         IN CASE ua.string = "" -> "unknown"
              [] ua.string # "" /\ ua.is_mobile -> "mobile"
              [] ua.string # "" /\ ~ua.is_mobile /\ ua.is_tablet -> "tablet"
              [] ua.string # "" /\ ~ua.is_mobile /\ ~ua.is_tablet /\ ua.is_pc -> "desktop"
              [] OTHER -> "unknown"

\* C20: a click event created by track_click without a user agent has
\* device_type "unknown" and browser "unknown"; with a user agent the
\* device type is chosen with priority mobile > tablet > desktop > unknown;
\* every click event track_click creates has a device_type among mobile,
\* tablet, desktop, unknown and a browser that is not null
EnrichmentDefaults ==
    [][clickEvents' # clickEvents =>
          \A e \in clickEvents' \ clickEvents :
              LET user_agent == lastTrack'.rq.user_agent IN
              /\ e.id = lastTrack'.id
              /\ user_agent = {} =>
                    e.device_type = {"unknown"} /\ e.browser = {"unknown"}
              /\ e.device_type = {DeviceByPriority(user_agent)}
              /\ e.device_type \subseteq {"mobile", "tablet", "desktop", "unknown"}
              /\ e.browser # {} /\ "" \notin e.browser]_vars

\* C20 witness: two clicks were tracked, one without a user agent, stored
\* as unknown / unknown, one with a user agent the parser flags as mobile
\* and as tablet, stored as mobile with its browser family
EnrichmentSeen ==
    /\ \E e \in clickEvents \ AggregateClicks :
          e.device_type = {"unknown"} /\ e.browser = {"unknown"}
    /\ lastTrack.calls = 2
    /\ ~lastTrack.raised
    /\ \E ua \in lastTrack.rq.user_agent : ua.is_mobile /\ ua.is_tablet
    /\ \E e \in clickEvents :
          /\ e.id = lastTrack.id
          /\ e.device_type = {"mobile"}
          /\ e.browser = {"Mobile Safari"}

\* row is a successful analytics_summary row of user u with a recorded
\* period start on or after S
SuppressesDuplicate(row, u, S) ==
    /\ row.user_id = u
    /\ row.email_type = "analytics_summary"
    /\ row.success = TRUE
    /\ row.analytics_period_start # {}
    /\ \A s \in row.analytics_period_start : s >= S

\* C21: in a run with target period start S, the duplicate check skips a
\* user if and only if the EmailLog has a row of that user with email_type
\* analytics_summary, success = true and analytics_period_start >= S; rows
\* of failed sends, of other email types, of other users and without a
\* period never cause a skip, so a failed send is retried by the next run
DuplicateCheckCondition ==
    [][\A r \in Runners :
          LET k == current[r] IN
          (/\ k # 0
           /\ runs[k].pc = "loop"
           /\ runs[k].idx <= Len(runs[k].users)
           /\ runs'[k] # runs[k]
           /\ faults' = faults)
          => /\ runs'[k] \in {NextUser(runs[k], "duplicate"),
                              [runs[k] EXCEPT !.pc = "analytics"]}
             /\ runs'[k] = NextUser(runs[k], "duplicate")
                  <=> \E i \in DOMAIN emailLog :
                         SuppressesDuplicate(emailLog[i], User(runs[k]),
                                             runs[k].start_date)]_vars

\* C21 witness: the table began with the failed summary of user 1 and the
\* successful summary of user 2 for the period beginning at the start; a
\* run skipped user 2 as already sent and sent the summary of user 1, whom
\* the failed row did not suppress
DuplicateCheckSeen ==
    /\ Len(emailLog) >= 2
    /\ emailLog[1].user_id = 1 /\ ~emailLog[1].success
    /\ emailLog[2].user_id = 2 /\ emailLog[2].success
    /\ \E k \in DOMAIN runs :
          /\ runs[k].pc = "returned"
          /\ OutcomesOf(k, 1) = {"sent"}
          /\ OutcomesOf(k, 2) = {"duplicate"}

\* the elements of a sequence
Range(seq) == {seq[i] : i \in DOMAIN seq}

\* C22: the weekly job dispatches analytics_summary emails only to users
\* that were active when the run enumerated the users: the list of a run
\* is the active users of that moment and stays as it is, every email the
\* run sends and every EmailLog row it writes is for a user of the list,
\* so a user inactive at the enumeration gets neither; the steps of the
\* job leave the links and the click events untouched
OnlyActiveUsers ==
    [][LET k == current["cron"] IN
       /\ (k # 0 /\ runs[k].pc = "enumerate" /\ runs'[k].pc # "enumerate") =>
            /\ Range(runs'[k].users) = {u \in Users : isActive[u]}
            /\ Len(runs'[k].users) = Cardinality(Range(runs'[k].users))
       /\ (k # 0 /\ runs[k].pc # "enumerate") => runs'[k].users = runs[k].users
       /\ \A i \in DOMAIN outbox' :
            i \notin DOMAIN outbox =>
                /\ outbox'[i].run = k
                /\ outbox'[i].to \in Range(runs[k].users)
       /\ \A i \in DOMAIN emailLog' :
            (i \notin DOMAIN emailLog \/ emailLog'[i] # emailLog[i]) =>
                /\ k # 0
                /\ emailLog'[i].user_id \in Range(runs[k].users)
       /\ runs' # runs => (links' = links /\ clickEvents' = clickEvents)]_vars

\* C22 witness: user 2, who has a click inside the window, was inactive
\* when a run enumerated the users: the run handled user 1 only and sent
\* the summary of user 1; no email and no EmailLog row is for user 2, and
\* the link and the click of user 2 are as they were
InactiveUserLeftOut ==
    \E k \in DOMAIN runs :
        /\ runs[k].pc = "returned"
        /\ runs[k].users = <<1>>
        /\ OutcomesOf(k, 1) = {"sent"}
        /\ ~isActive[2]
        /\ TotalClicks(2, Week, runs[k].end_date) > 0
        /\ emailLog # <<>> /\ outbox # <<>>
        /\ \A i \in DOMAIN emailLog : emailLog[i].user_id = 1
        /\ \A i \in DOMAIN outbox : outbox[i].to = 1
        /\ links = InitLinks /\ clickEvents = InitClicks

\* run k handled its users one after another, each once: the outcomes
\* recorded so far are those of the first users of the list, in order; no
\* user has two outcomes or two emails of the run
OneByOne(k) ==
    LET run == runs[k] IN
    /\ Len(run.users) = Cardinality(Range(run.users))
    /\ Len(run.outcomes) <= Len(run.users)
    /\ \A i \in DOMAIN run.outcomes : run.outcomes[i].user = run.users[i]
    /\ run.pc \notin {"enumerate", "raised"} => Len(run.outcomes) = run.idx - 1
    /\ run.pc = "returned" => Len(run.outcomes) = Len(run.users)
    /\ \A u \in Users : Cardinality(Delivered({k}, u)) <= 1

\* C23: every run of the weekly job processes the enumerated users one
\* after another, handles each of them exactly once with at most one send
\* attempt, and then ends, the trigger being idle again, whatever mix of
\* skips, sends and failures occurs
RunsToTheEnd ==
    /\ [](\A k \in DOMAIN runs : OneByOne(k))
    /\ (current["cron"] # 0) ~> (current["cron"] = 0)

\* C23 witness: two runs have returned and the trigger is idle again: the
\* first sent the summary of user 1 and failed to send that of user 2, the
\* second skipped user 1 as already sent and sent the summary of user 2
RunEnded ==
    /\ current["cron"] = 0
    /\ Len(runs) = 2
    /\ runs[1].pc = "returned" /\ runs[2].pc = "returned"
    /\ runs[1].outcomes = <<[user |-> 1, outcome |-> "sent"],
                            [user |-> 2, outcome |-> "send_failed"]>>
    /\ runs[2].outcomes = <<[user |-> 1, outcome |-> "duplicate"],
                            [user |-> 2, outcome |-> "sent"]>>

\* C24: while get_analytics computes top_links, a failure while the clicks
\* of one link are counted is isolated: the loop is not aborted, the call
\* returns its response, and the links of the user other than the failed
\* one are counted and ranked in top_links (at most five links remain in
\* the model, so each of them is listed, with its clicks)
TopLinksLoopIsolation ==
    [][faults' > faults =>
          LET r == lastAnalytics'
              rest == UserLinkIds(r.user_id) \ {r.link_id}
          IN /\ "top_links" \in DOMAIN r
             /\ \A l \in rest :
                   \E i \in DOMAIN r.top_links :
                       /\ r.top_links[i].link_id = l
                       /\ r.top_links[i].clicks =
                             LinkClicks(l, now - r.days)]_vars

\* the EmailLog rows of type analytics_summary sent within the last d
\* clock readings
SummariesWithin(d) ==
    {i \in DOMAIN emailLog :
        /\ emailLog[i].email_type = "analytics_summary"
        /\ now - d <= emailLog[i].sent_at /\ emailLog[i].sent_at <= now}

\* the statistics s are those the claim gives for the rows considered
StatsOf(s) ==
    LET rows == SummariesWithin(s.days)
        good == {i \in rows : emailLog[i].success}
        bad == {i \in rows : ~emailLog[i].success}
    IN /\ s.total_sent = Cardinality(good)
       /\ s.total_failed = Cardinality(bad)
       /\ s.total_sent + s.total_failed = Cardinality(rows)
       /\ s.success_rate.den > 0
       /\ IF rows = {} THEN s.success_rate.num = 0
          ELSE s.success_rate.num * (s.total_sent + s.total_failed)
                  = 100 * s.total_sent * s.success_rate.den
       /\ IF good = {} THEN s.last_sent = {}
          ELSE /\ \E i \in good : s.last_sent = {emailLog[i].sent_at}
               /\ \A i \in good : \A t \in s.last_sent : emailLog[i].sent_at <= t

\* C25: get_analytics_email_stats(days) considers exactly the EmailLog rows
\* of type analytics_summary with sent_at within the last `days` days:
\* total_sent counts those with success = true, total_failed those with
\* success = false, success_rate is total_sent / (total_sent +
\* total_failed) * 100 and 0 without rows, last_sent is the latest sent_at
\* among the successful rows or none
EmailStatsCounts ==
    [][lastStats' # lastStats => StatsOf(lastStats')]_vars

\* C25 witness: the statistics of one day, served after a run sent a
\* summary at the start: 2 sent, 1 failed, a rate of 200/3, last sent at
\* the start; the welcome email and the summary of three days ago are in
\* the table and not counted
EmailStatsServed ==
    /\ lastStats.days = TicksPerDay
    /\ lastStats.total_sent = 2
    /\ lastStats.total_failed = 1
    /\ lastStats.success_rate = [num |-> 200, den |-> 3]
    /\ lastStats.last_sent = {0}
    /\ \E i \in DOMAIN emailLog : emailLog[i].email_type = "welcome"
    /\ \E i \in DOMAIN emailLog :
          emailLog[i].success /\ emailLog[i].sent_at < 0 - TicksPerDay

\* C26: the click counter has no lost update: a call of
\* increment_click_count on an active link that completes adds exactly one
\* to click_count of the link, whatever other requests are served between
\* its statements, and no step takes the counter back; so N completed
\* calls add N
NoLostUpdate ==
    [][/\ (post.pc = "commit" /\ post'.pc = "idle") =>
            links'[post.link_id].click_count =
                links[post.link_id].click_count + 1
       /\ \A l \in LinkIds :
            links'[l].click_count >= links[l].click_count]_vars

\* C27: a redirect request is all-or-nothing: when it ends after
\* track_click appended its ClickEvent, the click_count of the link is one
\* higher; when it ends in an error, the click ledger and the Link table
\* are as they were, also when the link is deactivated or deleted between
\* the steps of the request.
RedirectAllOrNothing ==
    [][/\ (req.pc = "increment" /\ req'.pc = "idle") =>
            links'[req.link_id].click_count = links[req.link_id].click_count + 1
       /\ (req.pc = "track" /\ req'.pc = "idle") =>
            clickEvents' = clickEvents /\ links' = links]_vars

\* C28: the sent counts the runs of the weekly job report add up to the
\* successful analytics_summary rows the runs created (the log is empty
\* before the first run), whatever the value of send_analytics_emails: once
\* every run has returned, the sum of the sent counts is the number of
\* those rows.
SentRows ==
    {i \in DOMAIN emailLog :
        emailLog[i].email_type = ANALYTICS_SUMMARY /\ emailLog[i].success}

SentCountIsLogged ==
    (runs # <<>> /\ \A k \in DOMAIN runs : runs[k].pc = "returned") =>
        Sum([k \in DOMAIN runs |-> runs[k].result[1].sent], DOMAIN runs)
            = Cardinality(SentRows)

\* C29: an AnalyticsResponse computed while track_click runs is consistent
\* with itself: total_clicks is the sum of the clicks of daily_stats, and
\* it is the sum of the clicks of the links of top_links when the list has
\* all the links of the user (the denominator of the percentages).
SumOfClicks(seq) == Sum([i \in DOMAIN seq |-> seq[i].clicks], DOMAIN seq)

ConsistentResponse(r) ==
    /\ r.total_clicks = SumOfClicks(r.daily_stats)
    /\ Len(r.top_links) < TopLinksLimit => r.total_clicks = SumOfClicks(r.top_links)

ResponseIsConsistent ==
    [][(jobRead.pc = "query" /\ jobRead'.pc = "done")
            => ConsistentResponse(jobRead'.response)]_vars

\* C30: after any calls of start_scheduler and stop_scheduler at most one
\* scheduler runs and the handle is the one that runs or is cleared; a
\* start with a scheduler and a stop without one change nothing; and every
\* exit handler start_scheduler registered shuts down a scheduler that
\* still runs, never a cleared handle or a scheduler already stopped.
SchedulerLifecycle ==
    /\ Cardinality(Running) <= 1
    /\ ~sched.exiting => Running = {sched.scheduler} \ {0}
    /\ \A i \in DOMAIN sched.exits : sched.exits[i] = "shutdown"

====
